---------------------------- MODULE Spec2Model ----------------------------
(***************************************************************************)
(* Model of the trendFinder crawler: the story reduction pipeline          *)
(* (src/src/utils/story_processor.py), the retry decorator                 *)
(* (src/src/utils/retry_mechanism.py), the domain registry                 *)
(* (src/src/utils/crawler_config.py) and the fetch orchestration           *)
(* (src/backup_20250419_052242/crawler.py).                                *)
(*                                                                         *)
(* Python str values are TLA+ strings; s[i] is SubSeq(s, i+1, i+1).        *)
(* Python dicts are functions whose DOMAIN is the set of keys present.     *)
(***************************************************************************)
EXTENDS Integers, Sequences, FiniteSets, TLC

(***************************************************************************)
(* Python str primitives                                                   *)
(***************************************************************************)
Min(x, y) == IF x <= y THEN x ELSE y

Max(x, y) == IF x >= y THEN x ELSE y

\* s[i] with a 0-based index
At(s, i) == SubSeq(s, i + 1, i + 1)

\* s[lo:hi] with 0-based half-open bounds, clipped like a Python slice
Slice(s, lo, hi) == SubSeq(s, Max(lo, 0) + 1, Min(hi, Len(s)))

\* s[n:]
From(s, n) == Slice(s, n, Len(s))

\* s.startswith(p)
StartsWith(s, p) == Len(p) <= Len(s) /\ SubSeq(s, 1, Len(p)) = p

\* s.endswith(p)
EndsWith(s, p) == Len(p) <= Len(s) /\ SubSeq(s, Len(s) - Len(p) + 1, Len(s)) = p

\* min(S), or default when S is empty
MinOf(S, default) == IF S = {} THEN default ELSE CHOOSE i \in S : \A k \in S : i <= k

\* max(S), or default when S is empty
MaxOf(S, default) == IF S = {} THEN default ELSE CHOOSE i \in S : \A k \in S : i >= k

\* s.find(sub, start): the lowest 0-based index >= start, or -1
FindFrom(s, sub, start) ==
    MinOf({i \in start..(Len(s) - Len(sub)) : SubSeq(s, i + 1, i + Len(sub)) = sub}, -1)

Find(s, sub) == FindFrom(s, sub, 0)

\* s.rfind(sub): the highest 0-based index, or -1
RFind(s, sub) ==
    MaxOf({i \in 0..(Len(s) - Len(sub)) : SubSeq(s, i + 1, i + Len(sub)) = sub}, -1)

\* sub in s
Contains(s, sub) == Find(s, sub) >= 0

Digits == "0123456789"

\* the characters of s, as a set
CharsOf(s) == {At(s, i) : i \in 0..(Len(s) - 1)}

UpperSet == CharsOf("ABCDEFGHIJKLMNOPQRSTUVWXYZ")

LowerSet == CharsOf("abcdefghijklmnopqrstuvwxyz")

DigitSet == CharsOf(Digits)

IsUpper(c) == c \in UpperSet

IsDigit(c) == c \in DigitSet

IsAlpha(c) == IsUpper(c) \/ c \in LowerSet

\* str.isspace() of one character, also the class \s of re
IsSpace(c) == c \in {" ", "\t", "\n", "\r", "\f"}

\* the class \w of re
IsWord(c) == IsAlpha(c) \/ IsDigit(c) \/ c = "_"

\* the lowercase letter of each uppercase letter
LowerOf ==
    [c \in UpperSet |->
        At("abcdefghijklmnopqrstuvwxyz", Find("ABCDEFGHIJKLMNOPQRSTUVWXYZ", c))]

LowerChar(c) == IF IsUpper(c) THEN LowerOf[c] ELSE c

RECURSIVE LowerIn(_, _, _)
\* s[lo:hi].lower(), by halves
LowerIn(s, lo, hi) ==
    IF hi <= lo THEN ""
    ELSE IF hi = lo + 1 THEN LowerChar(At(s, lo))
    ELSE LET mid == (lo + hi) \div 2
         IN  LowerIn(s, lo, mid) \o LowerIn(s, mid, hi)

\* s.lower()
Lower(s) == LowerIn(s, 0, Len(s))

\* s.lstrip(chars)
LStripSet(s, chars) ==
    From(s, MinOf({i \in 0..(Len(s) - 1) : At(s, i) \notin chars}, Len(s)))

\* s.rstrip(chars)
RStripSet(s, chars) ==
    Slice(s, 0, MaxOf({i \in 0..(Len(s) - 1) : At(s, i) \notin chars}, -1) + 1)

Whitespace == {" ", "\t", "\n", "\r", "\f"}

\* s.strip()
Strip(s) == RStripSet(LStripSet(s, Whitespace), Whitespace)

RECURSIVE CollapseIn(_, _, _)
\* re.sub(r'\s+', ' ', s) restricted to the characters s[lo:hi], by halves: the
\* first character of a whitespace run becomes one space, the rest of it nothing
CollapseIn(s, lo, hi) ==
    IF hi <= lo THEN ""
    ELSE IF hi = lo + 1
         THEN (IF IsSpace(At(s, lo))
               THEN (IF lo > 0 /\ IsSpace(At(s, lo - 1)) THEN "" ELSE " ")
               ELSE At(s, lo))
    ELSE LET mid == (lo + hi) \div 2
         IN  CollapseIn(s, lo, mid) \o CollapseIn(s, mid, hi)

\* re.sub(r'\s+', ' ', s)
CollapseWhitespace(s) == CollapseIn(s, 0, Len(s))

\* int(s) of a run of decimal digits
RECURSIVE IntOf(_)
IntOf(s) ==
    IF Len(s) = 0 THEN 0
    ELSE 10 * IntOf(Slice(s, 0, Len(s) - 1)) + Find(Digits, At(s, Len(s) - 1))

\* dict[key] = value
SetKey(d, k, v) == [x \in (DOMAIN d) \cup {k} |-> IF x = k THEN v ELSE d[x]]

\* dict.get(key, default)
Get(d, k, default) == IF k \in DOMAIN d THEN d[k] ELSE default

(***************************************************************************)
(* StoryProcessor: construction parameters                                 *)
(***************************************************************************)
min_headline_length == 20

max_headline_length == 200

\* similarity_threshold = 0.75, held in hundredths
similarity_threshold == 75

max_days_old == 2

(***************************************************************************)
(* StoryProcessor._clean_headline                                          *)
(***************************************************************************)
prefixes == <<"Breaking:", "Just in:", "New:", "Update:">>

RECURSIVE StripPrefixes(_, _)
StripPrefixes(cleaned, k) ==
    IF k > Len(prefixes) THEN cleaned
    ELSE IF StartsWith(cleaned, prefixes[k])
         THEN StripPrefixes(Strip(From(cleaned, Len(prefixes[k]))), k + 1)
         ELSE StripPrefixes(cleaned, k + 1)

\* a truncation that leaves no room for the ellipsis, the fault C5 excludes
Truncate_then_ellipsis(cleaned) ==
    IF Len(cleaned) > max_headline_length
    THEN Slice(cleaned, 0, max_headline_length) \o "..."
    ELSE cleaned

\* the truncation to max_headline_length
Truncate(cleaned) ==
    IF Len(cleaned) > max_headline_length
    THEN Slice(cleaned, 0, max_headline_length - 3) \o "..."
    ELSE cleaned

clean_headline(headline) == Truncate(StripPrefixes(Strip(CollapseWhitespace(headline)), 1))

(***************************************************************************)
(* urllib.parse.urlparse, as used by _normalize_url and                    *)
(* get_domain_settings: scheme, netloc and path                            *)
(***************************************************************************)
\* the characters a scheme is made of
SchemeChars == UpperSet \cup LowerSet \cup DigitSet \cup {"+", "-", "."}

\* the lowest index >= start of any character of delims, or len(s)
FirstOf(s, delims, start) ==
    MinOf({i \in start..(Len(s) - 1) : At(s, i) \in delims}, Len(s))

\* urlsplit: url[:colon] is a scheme
HasScheme(url, colon) ==
    /\ colon > 0
    /\ IsAlpha(At(url, 0))
    /\ \A i \in 0..(colon - 1) : At(url, i) \in SchemeChars

\* s up to the first delim
UpToFirst(s, delim) == Slice(s, 0, FirstOf(s, {delim}, 0))

\* _splitparams: the path up to the first ';' of its last segment
PathUpTo(path, semi) == IF semi >= 0 THEN Slice(path, 0, semi) ELSE path

splitparams(path) == PathUpTo(path, FindFrom(path, ";", Max(RFind(path, "/"), 0)))

\* urlsplit and urlparse on what follows the netloc: the fragment, the query
\* and the params are split off
PathOf(rest) == splitparams(UpToFirst(UpToFirst(rest, "#"), "?"))

\* _splitnetloc(url, 2): the netloc ends at delim
AfterNetloc(scheme, rest, delim) ==
    [scheme |-> scheme, netloc |-> Slice(rest, 2, delim), path |-> PathOf(From(rest, delim))]

AfterScheme(scheme, rest) ==
    IF StartsWith(rest, "//")
    THEN AfterNetloc(scheme, rest, FirstOf(rest, {"/", "?", "#"}, 2))
    ELSE [scheme |-> scheme, netloc |-> "", path |-> PathOf(rest)]

SplitScheme(url, colon) ==
    IF HasScheme(url, colon)
    THEN AfterScheme(Lower(Slice(url, 0, colon)), From(url, colon + 1))
    ELSE AfterScheme("", url)

urlparse(url) == SplitScheme(url, Find(url, ":"))

(***************************************************************************)
(* StoryProcessor._normalize_url                                           *)
(***************************************************************************)
\* if not url.startswith(('http://', 'https://')): url = 'https://' + url
WithScheme(url) ==
    IF StartsWith(url, "http://") \/ StartsWith(url, "https://")
    THEN url ELSE "https://" \o url

\* if path.endswith('/'): path = path[:-1]
DropSlash(path) == IF EndsWith(path, "/") THEN Slice(path, 0, Len(path) - 1) ELSE path

\* f"{parsed.scheme}://{parsed.netloc}{path}"
Rebuild(parsed) == parsed.scheme \o "://" \o parsed.netloc \o DropSlash(parsed.path)

normalize_url(url) == Rebuild(urlparse(WithScheme(url)))

(***************************************************************************)
(* difflib.SequenceMatcher(None, a, b).ratio(), autojunk left at its       *)
(* default: Ratcliff/Obershelp matching blocks                             *)
(***************************************************************************)
\* the "popular" characters __chain_b drops from b2j when len(b) >= 200
Popular(b) ==
    LET n == Len(b)
    IN  IF n >= 200
        THEN {c \in {At(b, i) : i \in 0..(n - 1)} :
                 Cardinality({i \in 0..(n - 1) : At(b, i) = c}) > (n \div 100) + 1}
        ELSE {}

\* the characters of s as a function of the 0-based index
Chars(s) == [i \in 0..(Len(s) - 1) |-> At(s, i)]

\* a[i:i+k] and b[j:j+k] are equal and hold no popular character: a run of k
\* consecutive b2j matches (ca is Chars(a))
IsRun(a, b, ca, pop, i, j, k) ==
    /\ Slice(a, i, i + k) = Slice(b, j, j + k)
    /\ pop # {} => \A t \in i..(i + k - 1) : ca[t] \notin pop

RECURSIVE RunLength(_, _, _, _, _, _, _, _)
\* the largest k in lo..hi with IsRun(.., k), IsRun(.., lo) given; by bisection
RunLength(a, b, ca, pop, i, j, lo, hi) ==
    IF lo >= hi THEN lo
    ELSE LET mid == (lo + hi + 1) \div 2
         IN  IF IsRun(a, b, ca, pop, i, j, mid)
             THEN RunLength(a, b, ca, pop, i, j, mid, hi)
             ELSE RunLength(a, b, ca, pop, i, j, lo, mid - 1)

\* b2j of __chain_b: for each character of b that is not popular, its indices in b
B2J(cb, pop) ==
    [c \in {cb[j] : j \in DOMAIN cb} \ pop |-> {j \in DOMAIN cb : cb[j] = c}]

\* of the runs of size bestsize the one that starts earliest in a
EarliestIn(longest, besti, bestsize) ==
    [i |-> besti, j |-> MinOf({r.j : r \in {q \in longest : q.i = besti}}, 0),
     size |-> bestsize]

LongestOf(longest, bestsize) ==
    EarliestIn(longest, MinOf({r.i : r \in longest}, 0), bestsize)

WithSize(runs, bestsize) == LongestOf({r \in runs : r.size = bestsize}, bestsize)

\* besti, bestj, bestsize after the j2len loop: (alo, blo, 0) without a match
FirstLongest(runs, alo, blo) ==
    IF runs = {} THEN [i |-> alo, j |-> blo, size |-> 0]
    ELSE WithSize(runs, MaxOf({r.size : r \in runs}, 0))

\* find_longest_match before its extension loops: the j2len loop keeps the longest
\* run of b2j matches within a[alo:ahi], b[blo:bhi], and of several the one met
\* first, which starts earliest in a and then earliest in b
LongestRun(a, b, ca, cb, b2j, pop, alo, ahi, blo, bhi) ==
    LET Hits(i) == IF ca[i] \in DOMAIN b2j
                   THEN {j \in b2j[ca[i]] : blo <= j /\ j < bhi}
                   ELSE {}
        starts == UNION {{<<i, j>> : j \in {k \in Hits(i) :
                                              ~(/\ i > alo
                                                /\ k > blo
                                                /\ ca[i - 1] = cb[k - 1]
                                                /\ ca[i - 1] \notin pop)}} :
                         i \in alo..(ahi - 1)}
        runs == {[i |-> p[1], j |-> p[2],
                  size |-> RunLength(a, b, ca, pop, p[1], p[2], 1,
                                     Min(ahi - p[1], bhi - p[2]))] : p \in starts}
    IN  FirstLongest(runs, alo, blo)

\* the first extension loop of find_longest_match (no element is junk): the match
\* grows to the left over equal characters, popular ones too; by bisection
RECURSIVE LeftGrowth(_, _, _, _, _, _)
LeftGrowth(a, b, i, j, lo, hi) ==
    IF lo >= hi THEN lo
    ELSE LET mid == (lo + hi + 1) \div 2
         IN  IF Slice(a, i - mid, i) = Slice(b, j - mid, j)
             THEN LeftGrowth(a, b, i, j, mid, hi)
             ELSE LeftGrowth(a, b, i, j, lo, mid - 1)

\* the second extension loop: the same to the right
RECURSIVE RightGrowth(_, _, _, _, _, _)
RightGrowth(a, b, i, j, lo, hi) ==
    IF lo >= hi THEN lo
    ELSE LET mid == (lo + hi + 1) \div 2
         IN  IF Slice(a, i, i + mid) = Slice(b, j, j + mid)
             THEN RightGrowth(a, b, i, j, mid, hi)
             ELSE RightGrowth(a, b, i, j, lo, mid - 1)

\* besti, bestj, bestsize = besti - 1, bestj - 1, bestsize + 1, left times
GrowLeft(m, left) == [i |-> m.i - left, j |-> m.j - left, size |-> m.size + left]

ExtendLeft(a, b, alo, blo, m) ==
    GrowLeft(m, LeftGrowth(a, b, m.i, m.j, 0, Min(m.i - alo, m.j - blo)))

\* bestsize += 1 while the characters after the match are equal
ExtendRight(a, b, ahi, bhi, m) ==
    [i |-> m.i, j |-> m.j,
     size |-> m.size + RightGrowth(a, b, m.i + m.size, m.j + m.size, 0,
                                   Min(ahi - (m.i + m.size), bhi - (m.j + m.size)))]

find_longest_match(a, b, ca, cb, b2j, pop, alo, ahi, blo, bhi) ==
    ExtendRight(a, b, ahi, bhi,
                ExtendLeft(a, b, alo, blo,
                           LongestRun(a, b, ca, cb, b2j, pop, alo, ahi, blo, bhi)))

RECURSIVE MatchedIn(_, _, _, _, _, _, _, _, _, _)
RECURSIVE MatchedAround(_, _, _, _, _, _, _, _, _, _, _)
\* get_matching_blocks with the longest match m of a[alo:ahi], b[blo:bhi]: its
\* size and the sizes of the matches to its left and to its right
MatchedAround(a, b, ca, cb, b2j, pop, alo, ahi, blo, bhi, m) ==
    IF m.size = 0 THEN 0
    ELSE m.size
         + (IF alo < m.i /\ blo < m.j
            THEN MatchedIn(a, b, ca, cb, b2j, pop, alo, m.i, blo, m.j) ELSE 0)
         + (IF m.i + m.size < ahi /\ m.j + m.size < bhi
            THEN MatchedIn(a, b, ca, cb, b2j, pop,
                           m.i + m.size, ahi, m.j + m.size, bhi)
            ELSE 0)

\* the total size of get_matching_blocks within a[alo:ahi], b[blo:bhi]
MatchedIn(a, b, ca, cb, b2j, pop, alo, ahi, blo, bhi) ==
    MatchedAround(a, b, ca, cb, b2j, pop, alo, ahi, blo, bhi,
                  find_longest_match(a, b, ca, cb, b2j, pop, alo, ahi, blo, bhi))

MatchedWith(a, b, ca, cb, pop) ==
    MatchedIn(a, b, ca, cb, B2J(cb, pop), pop, 0, Len(a), 0, Len(b))

\* the sum of the sizes of get_matching_blocks()
Matched(a, b) == MatchedWith(a, b, Chars(a), Chars(b), Popular(b))

\* ratio() > pct / 100, where ratio() is 2.0 * matches / (len(a) + len(b)), or 1.0
\* when both are empty
ratio_exceeds(a, b, pct) ==
    IF Len(a) + Len(b) = 0 THEN 100 > pct
    ELSE 200 * Matched(a, b) > pct * (Len(a) + Len(b))

(***************************************************************************)
(* StoryProcessor._is_duplicate                                            *)
(***************************************************************************)
is_duplicate(story, existing_stories) ==
    LET story_url == normalize_url(Get(story, "link", ""))
        story_headline == Lower(Get(story, "headline", ""))
    IN  \/ \E k \in 1..Len(existing_stories) :
               normalize_url(Get(existing_stories[k], "link", "")) = story_url
        \/ /\ story_headline # ""
           /\ \E k \in 1..Len(existing_stories) :
                  LET existing_headline == Lower(Get(existing_stories[k], "headline", ""))
                  IN  /\ existing_headline # ""
                      /\ ratio_exceeds(story_headline, existing_headline,
                                       similarity_threshold)

(***************************************************************************)
(* StoryProcessor.ai_keywords, ai_pattern and _is_relevant                 *)
(***************************************************************************)
ai_keywords ==
    {"ai", "artificial intelligence", "machine learning", "ml",
     "deep learning", "neural network", "llm", "large language model",
     "generative ai", "gpt", "chatgpt", "claude", "gemini", "llama",
     "mistral", "transformer", "diffusion", "stable diffusion", "midjourney",
     "openai", "anthropic", "google ai", "microsoft ai", "deepmind",
     "hugging face", "nvidia", "dall-e", "natural language processing",
     "computer vision", "reinforcement learning", "rag", "embeddings",
     "fine-tuning", "prompt engineering", "multimodal", "foundation model"}

\* \b at index i of s: exactly one of s[i-1], s[i] is a word character
WordBoundary(s, i) ==
    (i > 0 /\ IsWord(At(s, i - 1))) # (i < Len(s) /\ IsWord(At(s, i)))

\* a search for the keywords anywhere, inside longer words too, the fault C32
\* excludes
ai_pattern_search_substring(s) ==
    \E kw \in ai_keywords : Contains(Lower(s), kw)

\* ai_pattern.search(s): r'\b(kw1|kw2|...)\b' with re.IGNORECASE
ai_pattern_search(s) ==
    LET low == Lower(s)
    IN  \E kw \in ai_keywords :
            \E i \in 0..(Len(low) - Len(kw)) :
                /\ SubSeq(low, i + 1, i + Len(kw)) = kw
                /\ WordBoundary(low, i)
                /\ WordBoundary(low, i + Len(kw))

is_relevant(story) == ai_pattern_search(Lower(Get(story, "headline", "")))

(***************************************************************************)
(* datetime: proleptic Gregorian ordinals (date.toordinal) and strptime    *)
(* for the eight formats of _normalize_date. A datetime at midnight is     *)
(* held as its ordinal; None is [ok |-> FALSE].                            *)
(***************************************************************************)
IsLeap(y) == (y % 4 = 0) /\ ((y % 100 # 0) \/ (y % 400 = 0))

DaysInMonth(y, m) ==
    IF m = 2 THEN (IF IsLeap(y) THEN 29 ELSE 28)
    ELSE IF m \in {4, 6, 9, 11} THEN 30 ELSE 31

RECURSIVE DaysBeforeMonth(_, _)
DaysBeforeMonth(y, m) ==
    IF m <= 1 THEN 0 ELSE DaysBeforeMonth(y, m - 1) + DaysInMonth(y, m - 1)

\* date(y, m, d).toordinal()
Ordinal(y, m, d) ==
    LET p == y - 1
    IN  p * 365 + (p \div 4) - (p \div 100) + (p \div 400) + DaysBeforeMonth(y, m) + d

None == [ok |-> FALSE, ord |-> 0]

Some(n) == [ok |-> TRUE, ord |-> n]

\* the directive %Y: (?P<Y>\d\d\d\d); 0 when s is not of that form
YearOf(s) ==
    IF Len(s) = 4 /\ \A i \in 0..3 : IsDigit(At(s, i)) THEN IntOf(s) ELSE 0

\* the directive %m: (?P<m>1[0-2]|0[1-9]|[1-9]); 0 when s is not of that form
MonthOf(s) ==
    IF Len(s) = 1 /\ IsDigit(s) /\ s # "0" THEN IntOf(s)
    ELSE IF Len(s) = 2 /\ At(s, 0) = "0" /\ IsDigit(At(s, 1)) /\ At(s, 1) # "0"
         THEN IntOf(s)
    ELSE IF Len(s) = 2 /\ At(s, 0) = "1" /\ At(s, 1) \in {"0", "1", "2"}
         THEN IntOf(s)
    ELSE 0

\* the directive %d: (?P<d>3[0-1]|[1-2]\d|0[1-9]|[1-9]| [1-9]); 0 otherwise
DayOf(s) ==
    IF Len(s) = 1 /\ IsDigit(s) /\ s # "0" THEN IntOf(s)
    ELSE IF Len(s) = 2 /\ At(s, 0) \in {"0", " "} /\ IsDigit(At(s, 1)) /\ At(s, 1) # "0"
         THEN IntOf(From(s, 1))
    ELSE IF Len(s) = 2 /\ At(s, 0) \in {"1", "2"} /\ IsDigit(At(s, 1))
         THEN IntOf(s)
    ELSE IF Len(s) = 2 /\ At(s, 0) = "3" /\ At(s, 1) \in {"0", "1"}
         THEN IntOf(s)
    ELSE 0

month_abbr ==
    <<"jan", "feb", "mar", "apr", "may", "jun",
      "jul", "aug", "sep", "oct", "nov", "dec">>

month_name ==
    <<"january", "february", "march", "april", "may", "june",
      "july", "august", "september", "october", "november", "december">>

\* the directives %b and %B (re.IGNORECASE): the month number, 0 when s is no name
NameOf(names, s) == MinOf({k \in 1..Len(names) : names[k] = Lower(s)}, 0)

\* datetime(y, m, d) of matched fields: ValueError (None) on a field that did not
\* match, on year 0 and on a day the month does not have
DateOf(y, m, d) ==
    IF y >= 1 /\ m >= 1 /\ d >= 1 /\ d <= DaysInMonth(y, m)
    THEN Some(Ordinal(y, m, d))
    ELSE None

\* the index where the whitespace run starting at i ends
SkipSpace(s, i) == MinOf({k \in i..(Len(s) - 1) : ~IsSpace(At(s, k))}, Len(s))

\* the index of the first whitespace character at or after i, or len(s)
NextSpace(s, i) == FirstOf(s, Whitespace, i)

\* s split at the first two occurrences of sep: <<f1, f2, f3>>, or <<>>
SplitAt(s, p1, p2) ==
    IF p1 < 0 \/ p2 < 0 THEN <<>>
    ELSE <<Slice(s, 0, p1), Slice(s, p1 + 1, p2), From(s, p2 + 1)>>

SplitAfter(s, sep, p1) == SplitAt(s, p1, FindFrom(s, sep, p1 + 1))

SplitThree(s, sep) == SplitAfter(s, sep, Find(s, sep))

\* strptime on three numeric fields: f holds the fields, y, m and d tell which
\* of them the format reads as the year, the month and the day
FieldsIn(f, y, m, d) ==
    IF f = <<>> THEN None ELSE DateOf(YearOf(f[y]), MonthOf(f[m]), DayOf(f[d]))

\* strptime(s, "%b %d, %Y") and "%B %d, %Y": name \s+ day , \s+ year
ParseNameDayYear(s, names) ==
    LET e1 == NextSpace(s, 0)
        b2 == SkipSpace(s, e1)
        comma == FindFrom(s, ",", b2)
        b3 == SkipSpace(s, comma + 1)
    IN  IF e1 >= Len(s) \/ comma < 0 \/ b3 = comma + 1 THEN None
        ELSE DateOf(YearOf(From(s, b3)),
                    NameOf(names, Slice(s, 0, e1)),
                    DayOf(Slice(s, b2, comma)))

\* strptime(s, "%d %b %Y") and "%d %B %Y": day \s+ name \s+ year
ParseDayNameYear(s, names) ==
    LET e1 == IF StartsWith(s, " ") THEN Min(2, Len(s)) ELSE NextSpace(s, 0)
        b2 == SkipSpace(s, e1)
        e2 == NextSpace(s, b2)
        b3 == SkipSpace(s, e2)
    IN  IF b2 = e1 \/ b3 = e2 THEN None
        ELSE DateOf(YearOf(From(s, b3)),
                    NameOf(names, Slice(s, b2, e2)),
                    DayOf(Slice(s, 0, e1)))

\* the formats of _normalize_date, tried in order
ParseFormat(s, k) ==
    CASE k = 1 -> FieldsIn(SplitThree(s, "-"), 1, 2, 3)
      [] k = 2 -> FieldsIn(SplitThree(s, "/"), 1, 2, 3)
      [] k = 3 -> FieldsIn(SplitThree(s, "/"), 3, 1, 2)
      [] k = 4 -> FieldsIn(SplitThree(s, "/"), 3, 2, 1)
      [] k = 5 -> ParseNameDayYear(s, month_abbr)
      [] k = 6 -> ParseNameDayYear(s, month_name)
      [] k = 7 -> ParseDayNameYear(s, month_abbr)
      [] OTHER -> ParseDayNameYear(s, month_name)

NumFormats == 8

\* where the whitespace run that ends before index p starts
SpaceStart(s, p) == MinOf({k \in 0..p : \A t \in k..(p - 1) : IsSpace(At(s, t))}, p)

\* where the digit run that ends before index w starts
DigitStart(s, w) == MinOf({k \in 0..w : \A t \in k..(w - 1) : IsDigit(At(s, t))}, w)

\* r'(\d+)\s+days ago' matches with its "days ago" at index p
IsDaysAgoAt(s, p) ==
    /\ Slice(s, p, p + 8) = "days ago"
    /\ SpaceStart(s, p) < p
    /\ DigitStart(s, SpaceStart(s, p)) < SpaceStart(s, p)

DaysAgoAt(s, p) ==
    IF p < 0 THEN -1
    ELSE IntOf(Slice(s, DigitStart(s, SpaceStart(s, p)), SpaceStart(s, p)))

\* re.search(r'(\d+)\s+days ago', s).group(1) as a number; -1 when there is no match
DaysAgo(s) == DaysAgoAt(s, MinOf({p \in 0..(Len(s) - 8) : IsDaysAgoAt(s, p)}, -1))

(***************************************************************************)
(* StoryProcessor._normalize_date; today is datetime.now() at midnight     *)
(***************************************************************************)
\* today - timedelta(days=days) of a match, None without one
DaysBefore(today, days) == IF days >= 0 THEN Some(today - days) ELSE None

\* relative dates with 'N days ago' looked for before 'today' and 'yesterday',
\* the order C31 excludes
Relative_days_ago_first(low, today) ==
    IF Contains(low, "days ago") THEN DaysBefore(today, DaysAgo(low))
    ELSE IF Contains(low, "today") THEN Some(today)
    ELSE IF Contains(low, "yesterday") THEN Some(today - 1)
    ELSE Some(today)

\* the handling of relative dates, reached when no format parses
Relative(low, today) ==
    IF Contains(low, "today") THEN Some(today)
    ELSE IF Contains(low, "yesterday") THEN Some(today - 1)
    ELSE IF Contains(low, "days ago") THEN DaysBefore(today, DaysAgo(low))
    ELSE Some(today)

\* k is the first format that parses, 0 when none does
ParsedBy(date_str, k, today) ==
    IF k > 0 THEN ParseFormat(date_str, k) ELSE Relative(Lower(date_str), today)

normalize_date(date_str, today) ==
    ParsedBy(date_str, MinOf({k \in 1..NumFormats : ParseFormat(date_str, k).ok}, 0), today)

(***************************************************************************)
(* StoryProcessor._is_valid_date                                           *)
(***************************************************************************)
\* (today - date_obj).days <= self.max_days_old
\* a recency test that rejects the boundary day, the fault C10 excludes
Recent_strict(date_obj, today) == date_obj.ok /\ today - date_obj.ord < max_days_old

\* return days_old <= self.max_days_old
Recent(date_obj, today) == date_obj.ok /\ today - date_obj.ord <= max_days_old

is_valid_date(story, today) ==
    /\ Get(story, "date_posted", "") # ""
    /\ Recent(normalize_date(Get(story, "date_posted", ""), today), today)

(***************************************************************************)
(* StoryProcessor.process_stories                                          *)
(***************************************************************************)
\* story['headline'] = self._clean_headline(story['headline'])
cleaned(story) ==
    IF "headline" \in DOMAIN story
    THEN SetKey(story, "headline", clean_headline(story["headline"]))
    ELSE story

\* story['link'] = self._normalize_url(story['link'])
normalized(story) ==
    IF "link" \in DOMAIN story
    THEN SetKey(story, "link", normalize_url(story["link"]))
    ELSE story

\* story['source_domain'] = urlparse(story['link']).netloc
enriched(story) ==
    IF "link" \in DOMAIN story
    THEN SetKey(story, "source_domain", urlparse(story["link"]).netloc)
    ELSE story

\* the loop body from the relevance filter on
after_link(story, today) ==
    IF ~is_relevant(story) THEN [story |-> story, keep |-> FALSE]
    ELSE IF ~is_valid_date(story, today) THEN [story |-> story, keep |-> FALSE]
    ELSE [story |-> enriched(story), keep |-> TRUE]

\* the loop body from the length filter on
after_headline(story, today) ==
    IF "headline" \in DOMAIN story /\ Len(story["headline"]) < min_headline_length
    THEN [story |-> story, keep |-> FALSE]
    ELSE after_link(normalized(story), today)

\* a loop body that cleans the headline before it looks for duplicates, the
\* order C34 excludes
process_one_cleans_first(story, processed_stories, today) ==
    IF is_duplicate(cleaned(story), processed_stories)
    THEN [story |-> cleaned(story), keep |-> FALSE]
    ELSE after_headline(cleaned(story), today)

\* one pass of the for loop body over a story: the story as the pass leaves it
\* (the dict is changed in place) and whether it was appended
process_one(story, processed_stories, today) ==
    IF is_duplicate(story, processed_stories)
    THEN [story |-> story, keep |-> FALSE]
    ELSE after_headline(cleaned(story), today)

\* the dicts a list of positions refers to
Deref(stories, list) == [p \in DOMAIN list |-> stories[list[p]]]

RECURSIVE process_loop(_, _, _, _)
RECURSIVE loop_step(_, _, _, _, _)
\* a loop that appends an accepted story twice, the fault C36 excludes
loop_step_appends_twice(stories, k, kept, today, r) ==
    process_loop([stories EXCEPT ![k] = r.story],
                 k + 1,
                 IF r.keep THEN Append(Append(kept, k), k) ELSE kept,
                 today)

\* the k-th pass left r: the rest of the loop
loop_step(stories, k, kept, today, r) ==
    process_loop([stories EXCEPT ![k] = r.story],
                 k + 1,
                 IF r.keep THEN Append(kept, k) ELSE kept,
                 today)

\* a loop that looks for duplicates among all the earlier stories of the input,
\* the fault C29 excludes
process_loop_against_input(stories, k, kept, today) ==
    IF k > Len(stories) THEN [kept |-> kept, stories |-> stories]
    ELSE loop_step(stories, k, kept, today,
                   process_one(stories[k], Deref(stories, [p \in 1..(k - 1) |-> p]), today))

\* the for loop from the k-th story on. processed_stories holds the dicts of
\* stories at the positions kept, the same objects. The result: the positions
\* appended, and the input list with its dicts as the loop leaves them
process_loop(stories, k, kept, today) ==
    IF k > Len(stories) THEN [kept |-> kept, stories |-> stories]
    ELSE loop_step(stories, k, kept, today,
                   process_one(stories[k], Deref(stories, kept), today))

\* the sort key: the parsed date, or datetime.now() (later than today's midnight,
\* earlier than tomorrow's) when there is none; twice the ordinal keeps it whole
KeyOf(d, today) == IF d.ok THEN 2 * d.ord ELSE 2 * today + 1

sort_key(story, today) == KeyOf(normalize_date(Get(story, "date_posted", ""), today), today)

\* a descending sort that reverses the elements with equal keys, the fault C11
\* excludes
Rank_ties_reversed(keys, k) ==
    1 + Cardinality({n \in DOMAIN keys : keys[n] > keys[k] \/ (keys[n] = keys[k] /\ n > k)})

\* where list.sort(reverse=True) puts the k-th element: after the elements with a
\* greater key and the earlier elements with an equal key
Rank(keys, k) ==
    1 + Cardinality({n \in DOMAIN keys : keys[n] > keys[k] \/ (keys[n] = keys[k] /\ n < k)})

\* list.sort(key=..., reverse=True), keys[k] the key of list[k]: descending and stable
SortedDescending(list, keys) ==
    IF list = <<>> THEN <<>>
    ELSE [p \in DOMAIN list |-> list[CHOOSE k \in DOMAIN list : Rank(keys, k) = p]]

\* processed_stories.sort(key=..., reverse=True) on the positions kept
sort_newest_first(stories, kept, today) ==
    SortedDescending(kept, [p \in DOMAIN kept |-> sort_key(stories[kept[p]], today)])

\* the loop is over: the sort
sorted_run(loop, today) ==
    [stories |-> loop.stories, order |-> sort_newest_first(loop.stories, loop.kept, today)]

\* process_stories(stories): the input list as the call leaves it, and the list
\* returned as positions of the input list
process_run(stories, today) == sorted_run(process_loop(stories, 1, <<>>, today), today)

\* the list process_stories(stories) returns
Returned(run) == Deref(run.stories, run.order)

process_stories(stories, today) == Returned(process_run(stories, today))

(***************************************************************************)
(* datetime.strftime("%Y-%m-%d") of a date <<year, month, day>>            *)
(***************************************************************************)
RECURSIVE Decimal(_)
\* str(n) for n >= 0
Decimal(n) == IF n < 10 THEN At(Digits, n) ELSE Decimal(n \div 10) \o At(Digits, n % 10)

RECURSIVE ZeroPad(_, _)
ZeroPad(s, width) == IF Len(s) >= width THEN s ELSE ZeroPad("0" \o s, width)

strftime_ymd(date) ==
    ZeroPad(Decimal(date[1]), 4) \o "-" \o ZeroPad(Decimal(date[2]), 2)
        \o "-" \o ZeroPad(Decimal(date[3]), 2)

\* datetime.now() at midnight, as an ordinal
Midnight(date) == Ordinal(date[1], date[2], date[3])

(***************************************************************************)
(* ConfigManager: DomainSettings and get_domain_settings. The registry     *)
(* settings.domains is a dict: a sequence of entries in insertion order.   *)
(***************************************************************************)
\* DomainSettings(): rate_limit 1.0 (held in tenths), retry_count 3, priority 0
DefaultDomainSettings == [rate_limit |-> 10, retry_count |-> 3, priority |-> 0]

\* the entries that match as a parent or a child domain, in dict order
SubdomainMatches(domains, domain) ==
    {k \in 1..Len(domains) :
        \/ EndsWith(domain, "." \o domains[k].domain)
        \/ EndsWith(domains[k].domain, "." \o domain)}

\* a lookup that returns the default settings of an unseen domain and does not
\* store them
SubdomainOrDefault_not_stored(domains, domain, k) ==
    IF k > 0 THEN [settings |-> domains[k].settings, domains |-> domains]
    ELSE [settings |-> DefaultDomainSettings, domains |-> domains]

\* the subdomain loop, k its first match or 0, and the default settings that are
\* created and stored when there is none
SubdomainOrDefault(domains, domain, k) ==
    IF k > 0 THEN [settings |-> domains[k].settings, domains |-> domains]
    ELSE [settings |-> DefaultDomainSettings,
          domains |-> Append(domains, [domain |-> domain,
                                       settings |-> DefaultDomainSettings])]

\* the exact match (if domain in self.settings.domains), else the subdomain loop
SettingsOf(domains, domain) ==
    IF \E k \in 1..Len(domains) : domains[k].domain = domain
    THEN [settings |-> domains[CHOOSE k \in 1..Len(domains) :
                                  domains[k].domain = domain].settings,
          domains |-> domains]
    ELSE SubdomainOrDefault(domains, domain, MinOf(SubdomainMatches(domains, domain), 0))

\* a lookup that also stores, under the hostname looked up, the settings it
\* found by a subdomain match
get_domain_settings_stores_match(domains, url) ==
    LET found == SettingsOf(domains, urlparse(url).netloc)
    IN  IF \E k \in 1..Len(found.domains) : found.domains[k].domain = urlparse(url).netloc
        THEN found
        ELSE [settings |-> found.settings,
              domains |-> Append(found.domains, [domain |-> urlparse(url).netloc,
                                                 settings |-> found.settings])]

\* get_domain_settings(url): the settings returned and the registry afterwards
get_domain_settings(domains, url) == SettingsOf(domains, urlparse(url).netloc)

(***************************************************************************)
(* Bounds of the model and the inputs it draws                             *)
(***************************************************************************)
\* the longest list of sources handed to process_sources
MaxSources == 2

\* the largest settings.max_concurrent
MaxConcurrent == 2

\* the longest list of stories handed to process_stories on its own
MaxStories == 2

\* retry_decorator(max_retries=3, ...) on scrape_website and scrape_twitter
max_retries == 3

\* the sequences over S of length at most n
RECURSIVE Arrangements(_, _)
Arrangements(S, n) ==
    IF n = 0 THEN {<<>>}
    ELSE LET shorter == Arrangements(S, n - 1)
         IN  shorter \cup {Append(q, e) : q \in shorter, e \in S}

Range(q) == {q[k] : k \in DOMAIN q}

SourcePool ==
    {[identifier |-> "https://example.com", type |-> "website"],
     [identifier |-> "https://news.site/ai/", type |-> "website"],
     [identifier |-> "https://x.com/acct", type |-> "twitter"]}

\* crawler_config.json: one configured domain, every other hostname unseen
ConfiguredDomains ==
    <<[domain |-> "news.site",
       settings |-> [rate_limit |-> 5, retry_count |-> 3, priority |-> 5]]>>

\* the text of the error an attempt fails with, when it fails: one per attempt
\* of the wrapper, so that an error tells the attempt it comes from
AttemptErrors ==
    <<"Invalid extraction schema", "HTTP 429 Too Many Requests",
      "Connection reset by peer", "Read timed out">>

\* str(e) of the error the attempt numbered attempt fails with
ErrorOf(attempt) == AttemptErrors[attempt + 1]

\* the date of the run
Today == <<2025, 3, 1>>

RECURSIVE Repeat(_, _)
\* s * n
Repeat(s, n) == IF n = 0 THEN "" ELSE s \o Repeat(s, n - 1)

Story(headline, link, date_posted) ==
    [headline |-> headline, link |-> link, date_posted |-> date_posted]

\* the stories handed to process_stories on its own
StoryPool ==
    {Story("OpenAI releases new model update",
          "https://a.com/x", "2025-03-01"),
     Story("OpenAI releases new model update today",
          "https://b.org/y?utm=1", "yesterday"),
     Story("Anthropic ships Claude for everyone",
          "a.com/x/", "2025-02-27"),
     Story("Breaking:   OpenAI    releases    new    model    update",
          "http://c.io/z", "today"),
     Story("Google AI unveils Gemini upgrade",
          "https://a.com/x//", "Feb 27, 2025"),
     Story("Nvidia reports record chip demand",
          "https://a.com/x//", "2025-03-02"),
     Story("New: Breaking: Mistral beats every benchmark",
          "https://d.net/m", "2 days ago"),
     Story("AI news",
          "https://e.dev/s", "2025-03-01"),
     Story("Rain delays the main mountain trail race",
          "https://a.com/x", "2025-03-01"),
     Story("Meta trains Llama on new cluster",
          "https://f.ai/l", "2025-02-26"),
     Story("Claude " \o Repeat("zz ", 70),
          "https://g.co/long", "soon")}

\* what the extraction engine finds on a page: result.extracted_content["stories"]
ExtractedStories(url) ==
    IF url = "https://example.com"
    THEN <<[headline |-> "OpenAI ships a new model",
            link |-> "https://example.com/a",
            date_posted |-> strftime_ymd(Today)]>>
    ELSE <<[headline |-> "Breaking: OpenAI ships a new model",
            link |-> "/posts/1?ref=home",
            date_posted |-> "yesterday"],
           [headline |-> "Weather stays mild this week",
            link |-> "https://news.site/w",
            date_posted |-> strftime_ymd(Today)]>>

\* what the social-feed API returns: tweets.get("data")
Tweets(url) == <<[text |-> "Anthropic ships Claude 4 today", id |-> "77"]>>

(***************************************************************************)
(* scrape_website and scrape_twitter: the result of one attempt that       *)
(* returns. ok tells the path the attempt takes: the one that returns what *)
(* was found, or one that returns the error e.                             *)
(***************************************************************************)
\* the loop that makes links absolute
absolute_link(url, story) ==
    IF Get(story, "link", "") # "" /\ ~StartsWith(story["link"], "http")
    THEN SetKey(story, "link",
                RStripSet(url, {"/"}) \o "/" \o LStripSet(story["link"], {"/"}))
    ELSE story

scrape_website(url, ok, e) ==
    IF ok
    THEN [stories |-> [k \in DOMAIN ExtractedStories(url) |->
                          absolute_link(url, ExtractedStories(url)[k])]]
    ELSE [stories |-> <<>>, error |-> e]

\* a conversion of the tweets that leaves out source_type
scrape_twitter_untyped(url, ok, e) ==
    IF ok
    THEN [stories |-> [k \in DOMAIN Tweets(url) |->
                          [headline |-> Tweets(url)[k].text,
                           link |-> "https://x.com/i/status/" \o Tweets(url)[k].id,
                           date_posted |-> strftime_ymd(Today)]]]
    ELSE [stories |-> <<>>, error |-> e]

scrape_twitter(url, ok, e) ==
    IF ok
    THEN [stories |-> [k \in DOMAIN Tweets(url) |->
                          [headline |-> Tweets(url)[k].text,
                           link |-> "https://x.com/i/status/" \o Tweets(url)[k].id,
                           date_posted |-> strftime_ymd(Today),
                           source_type |-> "twitter"]]]
    ELSE [stories |-> <<>>, error |-> e]

(***************************************************************************)
(* State                                                                   *)
(***************************************************************************)
VARIABLES
    sources,          \* process_sources: the argument
    twitter_token,    \* os.environ.get("X_API_BEARER_TOKEN"), "" when unset
    max_concurrent,   \* config_manager.settings.max_concurrent
    domains,          \* config_manager.settings.domains
    pc,               \* process_sources: "start", "collecting", "done"; "idle"
    all_tasks,        \* the sources of website_tasks + twitter_tasks, in that order
    tasks,            \* per task: its position, and the locals of the retry wrapper
    semaphore,        \* the value of asyncio.Semaphore(max_concurrent)
    done_queue,       \* as_completed: the finished tasks not yet yielded
    all_stories,      \* process_sources: all_stories
    errors,           \* process_sources: errors
    result,           \* what process_sources returned
    stories,          \* process_stories on its own: the caller's list
    processed,        \* what process_stories returned, <<>> before
    reprocessed,      \* what process_stories returned for that list, <<>> before
    sp,               \* process_stories on its own: "ready", "once", "twice"; "idle"
    argv,             \* main: sys.argv[1]
    stdout,           \* main: the lines printed to standard output
    exit_status,      \* main: the exit status of the process, -1 while it runs
    exception,        \* classify_exception on its own: str(exception)
    classified,       \* classify_exception on its own: what it returned, <<>> before
    exceptions,       \* retry_decorator on its own: the classes it was configured with
    call,             \* one call of async_wrapper: its position and its locals
    lookups,          \* get_domain_settings on its own: the calls made, each with
                      \* its url and the settings it returned
    response          \* the model server: the last request and how it was answered

orchVars == <<sources, twitter_token, max_concurrent, domains, pc, all_tasks, tasks,
              semaphore, done_queue, all_stories, errors, result>>

procVars == <<stories, processed, reprocessed, sp>>

mainVars == <<argv, stdout, exit_status>>

classVars == <<exception, classified>>

retryVars == <<exceptions, call>>

vars == <<orchVars, procVars, mainVars, classVars, retryVars, lookups, response>>

\* the server has answered no request
NoResponse == [status |-> 0]

\* no call of async_wrapper was made
NoCall == [at |-> "idle", attempt |-> 0, sleeps |-> 0, last_exception |-> <<>>]

NoResult == [stories |-> <<>>, errors |-> <<>>]

\* at is the position of the task: "created" (it waits for a slot), "fetching",
\* "backoff" and "pacing" (it holds a slot), "returned" and "raised" (finished,
\* not yet seen by the collecting loop), "seen_returned" and "seen_raised";
\* result is the value the task returned, as it was then
NewTask ==
    [at |-> "created", attempt |-> 0, last_exception |-> "", result |-> [pending |-> TRUE]]

(***************************************************************************)
(* process_sources                                                         *)
(***************************************************************************)
RECURSIVE priorities(_, _, _)
RECURSIVE priorities_after(_, _, _)
\* the priority of the k-th source is known: the rest of the loop
priorities_with(source, got, tail) ==
    [list |-> <<[source |-> source, priority |-> got.settings.priority]>> \o tail.list,
     domains |-> tail.domains]

priorities_after(website_sources, k, got) ==
    priorities_with(website_sources[k], got, priorities(website_sources, k + 1, got.domains))

\* the loop over website_sources: each source with its priority, and the registry
\* after the lookups
priorities(website_sources, k, reg) ==
    IF k > Len(website_sources) THEN [list |-> <<>>, domains |-> reg]
    ELSE priorities_after(website_sources, k,
                          get_domain_settings(reg, website_sources[k].identifier))

\* a sort by priority that reverses the sources of equal priority
sort_by_priority_ties_reversed(list) ==
    IF list = <<>> THEN <<>>
    ELSE [p \in DOMAIN list |->
             list[CHOOSE k \in DOMAIN list :
                      Rank_ties_reversed([n \in DOMAIN list |-> list[n].priority], k) = p]]

\* list.sort(key=lambda x: x[1], reverse=True)
sort_by_priority(list) == SortedDescending(list, [k \in DOMAIN list |-> list[k].priority])

IsWebsite(s) == s.type = "website"

IsTwitter(s) == s.type = "twitter"

\* website_sources after the sort, then twitter_sources
TaskSources(sorted, twitter_sources) ==
    [k \in DOMAIN sorted |-> sorted[k].source] \o twitter_sources

\* a start that gives the social-feed sources their tasks without a token
Start_without_token_check ==
    /\ pc = "start"
    /\ LET website_sources == SelectSeq(sources, IsWebsite)
           twitter_sources == SelectSeq(sources, IsTwitter)
           with_priority == priorities(website_sources, 1, domains)
       IN  /\ all_tasks' = TaskSources(sort_by_priority(with_priority.list), twitter_sources)
           /\ domains' = with_priority.domains
    /\ tasks' = [t \in DOMAIN all_tasks' |-> NewTask]
    /\ semaphore' = max_concurrent
    /\ pc' = "collecting"
    /\ UNCHANGED <<sources, twitter_token, max_concurrent, done_queue, all_stories,
                   errors, result, procVars, mainVars, classVars, retryVars, lookups, response>>

\* lines 235-300: partition, drop the social feed without a token, sort the
\* websites by priority, make the semaphore and the tasks
Start ==
    /\ pc = "start"
    /\ LET website_sources == SelectSeq(sources, IsWebsite)
           twitter_sources == IF twitter_token = "" THEN <<>>
                              ELSE SelectSeq(sources, IsTwitter)
           with_priority == priorities(website_sources, 1, domains)
       IN  /\ all_tasks' = TaskSources(sort_by_priority(with_priority.list), twitter_sources)
           /\ domains' = with_priority.domains
    /\ tasks' = [t \in DOMAIN all_tasks' |-> NewTask]
    /\ semaphore' = max_concurrent
    /\ pc' = "collecting"
    /\ UNCHANGED <<sources, twitter_token, max_concurrent, done_queue, all_stories,
                   errors, result, procVars, mainVars, classVars, retryVars, lookups, response>>

\* a semaphore that never blocks, the fault C1 excludes
locked_never(value) == FALSE

\* asyncio.Semaphore.locked(): no slot is free
locked(value) == value = 0

\* async with semaphore: a task that waits takes a free slot and makes its
\* first attempt (for attempt in range(max_retries + 1): attempt = 0)
Acquire(t) ==
    /\ pc = "collecting"
    /\ tasks[t].at = "created"
    /\ ~locked(semaphore)
    /\ semaphore' = semaphore - 1
    /\ tasks' = [tasks EXCEPT ![t].at = "fetching", ![t].attempt = 0]
    /\ UNCHANGED <<sources, twitter_token, max_concurrent, domains, pc, all_tasks,
                   done_queue, all_stories, errors, result, procVars, mainVars,
                   classVars, retryVars, lookups, response>>

\* a wrapper that hands the result on without the fields of its source
stamp_nothing(source, res) == res

\* the stamping loops of bounded_scrape_website and bounded_scrape_twitter
stamp(source, res) ==
    IF "stories" \in DOMAIN res
    THEN SetKey(res, "stories",
                [k \in DOMAIN res.stories |->
                    IF source.type = "website"
                    THEN SetKey(SetKey(res.stories[k], "source_type", "website"),
                                "source_url", source.identifier)
                    ELSE SetKey(res.stories[k], "source_url", source.identifier)])
    ELSE res

\* a wrapper that treats a returned error as a failed attempt and sleeps before
\* the next one, the fault C35 excludes
AttemptReturns_retries_error(t, ok) ==
    /\ pc = "collecting"
    /\ tasks[t].at = "fetching"
    /\ tasks' = [tasks EXCEPT ![t] =
                    [at |-> IF ok \/ tasks[t].attempt >= max_retries THEN "pacing" ELSE "backoff",
                     attempt |-> IF ok \/ tasks[t].attempt >= max_retries THEN 0
                                 ELSE tasks[t].attempt,
                     last_exception |-> "",
                     result |-> stamp(all_tasks[t],
                                      IF all_tasks[t].type = "website"
                                      THEN scrape_website(all_tasks[t].identifier, ok,
                                                          ErrorOf(tasks[t].attempt))
                                      ELSE scrape_twitter(all_tasks[t].identifier, ok,
                                                          ErrorOf(tasks[t].attempt)))]]
    /\ domains' = IF all_tasks[t].type = "website"
                  THEN get_domain_settings(
                           get_domain_settings(domains, all_tasks[t].identifier).domains,
                           all_tasks[t].identifier).domains
                  ELSE domains
    /\ UNCHANGED <<sources, twitter_token, max_concurrent, pc, all_tasks, semaphore,
                   done_queue, all_stories, errors, result, procVars, mainVars,
                   classVars, retryVars, lookups, response>>

\* an attempt returns (return await func(...)): the wrapper returns that value
\* and its locals are gone, the stories are stamped, the registry was asked by
\* scrape_website for the retry count and is asked for the rate limit, and the
\* task sleeps holding its slot
AttemptReturns(t, ok) ==
    /\ pc = "collecting"
    /\ tasks[t].at = "fetching"
    /\ tasks' = [tasks EXCEPT ![t] =
                    [at |-> "pacing", attempt |-> 0, last_exception |-> "",
                     result |-> stamp(all_tasks[t],
                                      IF all_tasks[t].type = "website"
                                      THEN scrape_website(all_tasks[t].identifier, ok,
                                                          ErrorOf(tasks[t].attempt))
                                      ELSE scrape_twitter(all_tasks[t].identifier, ok,
                                                          ErrorOf(tasks[t].attempt)))]]
    /\ domains' = IF all_tasks[t].type = "website"
                  THEN get_domain_settings(
                           get_domain_settings(domains, all_tasks[t].identifier).domains,
                           all_tasks[t].identifier).domains
                  ELSE domains
    /\ UNCHANGED <<sources, twitter_token, max_concurrent, pc, all_tasks, semaphore,
                   done_queue, all_stories, errors, result, procVars, mainVars,
                   classVars, retryVars, lookups, response>>

\* a loop that runs one attempt too many, the fault C4 excludes
is_last_one_late(attempt) == attempt >= max_retries + 1

\* for attempt in range(max_retries + 1): attempt is the last of the range
is_last(attempt) == attempt + 1 >= max_retries + 1

\* a wrapper that starts the next attempt at once, without its sleep
AttemptRaises_without_sleep(t) ==
    /\ pc = "collecting"
    /\ tasks[t].at = "fetching"
    /\ all_tasks[t].type = "website"
    /\ IF ~is_last(tasks[t].attempt)
       THEN /\ tasks' = [tasks EXCEPT ![t].attempt = @ + 1,
                                      ![t].last_exception = ErrorOf(tasks[t].attempt)]
            /\ UNCHANGED <<semaphore, done_queue>>
       ELSE /\ tasks' = [tasks EXCEPT ![t].at = "raised",
                                      ![t].last_exception = ErrorOf(tasks[t].attempt)]
            /\ semaphore' = semaphore + 1
            /\ done_queue' = Append(done_queue, t)
    /\ UNCHANGED <<sources, twitter_token, max_concurrent, domains, pc, all_tasks,
                   all_stories, errors, result, procVars, mainVars,
                   classVars, retryVars, lookups, response>>

\* an attempt of scrape_website raises, before its try block (except exceptions
\* as e): the error is kept as last_exception; before the last attempt the
\* wrapper sleeps, after it the wrapper raises last_exception, which leaves the
\* async with block: the slot is released and the task is finished
AttemptRaises(t) ==
    /\ pc = "collecting"
    /\ tasks[t].at = "fetching"
    /\ all_tasks[t].type = "website"
    /\ IF ~is_last(tasks[t].attempt)
       THEN /\ tasks' = [tasks EXCEPT ![t].at = "backoff",
                                      ![t].last_exception = ErrorOf(tasks[t].attempt)]
            /\ UNCHANGED <<semaphore, done_queue>>
       ELSE /\ tasks' = [tasks EXCEPT ![t].at = "raised",
                                      ![t].last_exception = ErrorOf(tasks[t].attempt)]
            /\ semaphore' = semaphore + 1
            /\ done_queue' = Append(done_queue, t)
    /\ UNCHANGED <<sources, twitter_token, max_concurrent, domains, pc, all_tasks,
                   all_stories, errors, result, procVars, mainVars,
                   classVars, retryVars, lookups, response>>

\* a wrapper that gives its slot back when its sleep is over
BackoffElapsed_releases(t) ==
    /\ pc = "collecting"
    /\ tasks[t].at = "backoff"
    /\ tasks' = [tasks EXCEPT ![t].at = "fetching", ![t].attempt = @ + 1]
    /\ semaphore' = semaphore + 1
    /\ UNCHANGED <<sources, twitter_token, max_concurrent, domains, pc, all_tasks,
                   done_queue, all_stories, errors, result, procVars, mainVars,
                   classVars, retryVars, lookups, response>>

\* await asyncio.sleep(sleep_time) of the wrapper is over: the next attempt
BackoffElapsed(t) ==
    /\ pc = "collecting"
    /\ tasks[t].at = "backoff"
    /\ tasks' = [tasks EXCEPT ![t].at = "fetching", ![t].attempt = @ + 1]
    /\ UNCHANGED <<sources, twitter_token, max_concurrent, domains, pc, all_tasks,
                   semaphore, done_queue, all_stories, errors, result, procVars,
                   mainVars, classVars, retryVars, lookups, response>>

\* a task that returns from its pacing sleep and keeps its slot
PacingElapsed_keeps_slot(t) ==
    /\ pc = "collecting"
    /\ tasks[t].at = "pacing"
    /\ tasks' = [tasks EXCEPT ![t].at = "returned"]
    /\ done_queue' = Append(done_queue, t)
    /\ UNCHANGED <<sources, twitter_token, max_concurrent, domains, pc, all_tasks, semaphore,
                   all_stories, errors, result, procVars, mainVars,
                   classVars, retryVars, lookups, response>>

\* await asyncio.sleep(1.0 / rate_limit) or asyncio.sleep(2.0) is over: return
\* result, source leaves the async with block, the slot is released, the task
\* is finished
PacingElapsed(t) ==
    /\ pc = "collecting"
    /\ tasks[t].at = "pacing"
    /\ tasks' = [tasks EXCEPT ![t].at = "returned"]
    /\ semaphore' = semaphore + 1
    /\ done_queue' = Append(done_queue, t)
    /\ UNCHANGED <<sources, twitter_token, max_concurrent, domains, pc, all_tasks,
                   all_stories, errors, result, procVars, mainVars,
                   classVars, retryVars, lookups, response>>

\* a collecting loop that swallows the failure of a task, the fault C2 excludes
on_exception_swallowed(errs, e) == errs

\* except Exception as e: errors.append({"source": "unknown", "error": str(e)})
on_exception(errs, e) == Append(errs, [source |-> "unknown", error |-> e])

\* a collecting loop without its except clause: the exception of a task ends
\* process_sources
Consume_without_except ==
    /\ pc = "collecting"
    /\ done_queue # <<>>
    /\ IF tasks[Head(done_queue)].at = "raised"
       THEN /\ pc' = "done"
            /\ UNCHANGED <<errors, all_stories>>
            /\ tasks' = [tasks EXCEPT ![Head(done_queue)].at = "seen_raised"]
       ELSE /\ errors' = IF "error" \in DOMAIN tasks[Head(done_queue)].result
                          THEN Append(errors,
                                      [source |-> all_tasks[Head(done_queue)].identifier,
                                       error |-> tasks[Head(done_queue)].result.error])
                          ELSE errors
            /\ all_stories' = IF "stories" \in DOMAIN tasks[Head(done_queue)].result
                              THEN all_stories \o tasks[Head(done_queue)].result.stories
                              ELSE all_stories
            /\ tasks' = [tasks EXCEPT ![Head(done_queue)].at = "seen_returned"]
            /\ pc' = pc
    /\ done_queue' = Tail(done_queue)
    /\ UNCHANGED <<sources, twitter_token, max_concurrent, domains, all_tasks,
                   semaphore, result, procVars, mainVars, classVars, retryVars, lookups, response>>

\* a collecting loop that assigns the stories of a result to the raw list
\* instead of extending the list with them
Consume_overwrites ==
    /\ pc = "collecting"
    /\ done_queue # <<>>
    /\ IF tasks[Head(done_queue)].at = "raised"
       THEN /\ errors' = on_exception(errors, tasks[Head(done_queue)].last_exception)
            /\ UNCHANGED all_stories
            /\ tasks' = [tasks EXCEPT ![Head(done_queue)].at = "seen_raised"]
       ELSE /\ errors' = IF "error" \in DOMAIN tasks[Head(done_queue)].result
                          THEN Append(errors,
                                      [source |-> all_tasks[Head(done_queue)].identifier,
                                       error |-> tasks[Head(done_queue)].result.error])
                          ELSE errors
            /\ all_stories' = IF "stories" \in DOMAIN tasks[Head(done_queue)].result
                              THEN tasks[Head(done_queue)].result.stories
                              ELSE all_stories
            /\ tasks' = [tasks EXCEPT ![Head(done_queue)].at = "seen_returned"]
    /\ done_queue' = Tail(done_queue)
    /\ UNCHANGED <<sources, twitter_token, max_concurrent, domains, pc, all_tasks,
                   semaphore, result, procVars, mainVars, classVars, retryVars, lookups, response>>

\* one round of for future in asyncio.as_completed(all_tasks): the task that
\* finished first among those not yet seen
Consume ==
    /\ pc = "collecting"
    /\ done_queue # <<>>
    /\ IF tasks[Head(done_queue)].at = "raised"
       THEN /\ errors' = on_exception(errors, tasks[Head(done_queue)].last_exception)
            /\ UNCHANGED all_stories
            /\ tasks' = [tasks EXCEPT ![Head(done_queue)].at = "seen_raised"]
       ELSE /\ errors' = IF "error" \in DOMAIN tasks[Head(done_queue)].result
                          THEN Append(errors,
                                      [source |-> all_tasks[Head(done_queue)].identifier,
                                       error |-> tasks[Head(done_queue)].result.error])
                          ELSE errors
            /\ all_stories' = IF "stories" \in DOMAIN tasks[Head(done_queue)].result
                              THEN all_stories \o tasks[Head(done_queue)].result.stories
                              ELSE all_stories
            /\ tasks' = [tasks EXCEPT ![Head(done_queue)].at = "seen_returned"]
    /\ done_queue' = Tail(done_queue)
    /\ UNCHANGED <<sources, twitter_token, max_concurrent, domains, pc, all_tasks,
                   semaphore, result, procVars, mainVars, classVars, retryVars, lookups, response>>

Seen(t) == tasks[t].at \in {"seen_raised", "seen_returned"}

\* every task was seen: process_stories(all_stories), which rewrites the
\* stories of all_stories in place, and the return
Finish ==
    /\ pc = "collecting"
    /\ \A t \in DOMAIN tasks : Seen(t)
    /\ result' = [stories |-> process_stories(all_stories, Midnight(Today)),
                  errors |-> errors]
    /\ all_stories' = process_run(all_stories, Midnight(Today)).stories
    /\ pc' = "done"
    /\ UNCHANGED <<sources, twitter_token, max_concurrent, domains, all_tasks, tasks,
                   semaphore, done_queue, errors, procVars, mainVars,
                   classVars, retryVars, lookups, response>>

(***************************************************************************)
(* process_stories called on its own, and then on the list it returned     *)
(***************************************************************************)
\* the dicts of the list come back changed: they are written to their positions
WriteBack(objects, list, after) ==
    [i \in DOMAIN objects |->
        IF \E p \in DOMAIN list : list[p] = i
        THEN after[CHOOSE p \in DOMAIN list : list[p] = i]
        ELSE objects[i]]

ProcessStories ==
    /\ sp = "ready"
    /\ stories' = process_run(stories, Midnight(Today)).stories
    /\ processed' = process_run(stories, Midnight(Today)).order
    /\ sp' = "once"
    /\ UNCHANGED <<orchVars, reprocessed, mainVars, classVars, retryVars, lookups, response>>

\* process_stories(processed): the dicts of processed are dicts of stories
Reprocess ==
    /\ sp = "once"
    /\ stories' = WriteBack(stories, processed,
                            process_run(Deref(stories, processed), Midnight(Today)).stories)
    /\ reprocessed' = Deref(processed,
                            process_run(Deref(stories, processed), Midnight(Today)).order)
    /\ sp' = "twice"
    /\ UNCHANGED <<orchVars, processed, mainVars, classVars, retryVars, lookups, response>>

ProcInit ==
    /\ stories \in UNION {[1..n -> StoryPool] : n \in 0..MaxStories}
    /\ processed = <<>>
    /\ reprocessed = <<>>
    /\ sp = "ready"
    /\ sources = <<>>
    /\ twitter_token = ""
    /\ max_concurrent = 1
    /\ domains = ConfiguredDomains
    /\ pc = "idle"
    /\ all_tasks = <<>>
    /\ tasks = <<>>
    /\ semaphore = 0
    /\ done_queue = <<>>
    /\ all_stories = <<>>
    /\ errors = <<>>
    /\ result = NoResult
    /\ argv = ""
    /\ stdout = <<>>
    /\ exit_status = -1
    /\ exception = ""
    /\ classified = <<>>
    /\ exceptions = {"Exception"}
    /\ call = NoCall
    /\ lookups = <<>>
    /\ response = NoResponse

ProcNext == ProcessStories \/ Reprocess

ProcSpec == ProcInit /\ [][ProcNext]_vars

Init ==
    /\ sources \in {q \in Arrangements(SourcePool, MaxSources) :
                       Len(q) >= 1 /\ Cardinality(Range(q)) = Len(q)}
    /\ twitter_token \in {"", "token"}
    /\ max_concurrent \in 1..MaxConcurrent
    /\ domains = ConfiguredDomains
    /\ pc = "start"
    /\ all_tasks = <<>>
    /\ tasks = <<>>
    /\ semaphore = 0
    /\ done_queue = <<>>
    /\ all_stories = <<>>
    /\ errors = <<>>
    /\ result = NoResult
    /\ stories = <<>>
    /\ processed = <<>>
    /\ reprocessed = <<>>
    /\ sp = "idle"
    /\ argv = ""
    /\ stdout = <<>>
    /\ exit_status = -1
    /\ exception = ""
    /\ classified = <<>>
    /\ exceptions = {"Exception"}
    /\ call = NoCall
    /\ lookups = <<>>
    /\ response = NoResponse

Next ==
    \/ Start
    \/ \E t \in DOMAIN tasks : Acquire(t)
    \/ \E t \in DOMAIN tasks : \E ok \in BOOLEAN : AttemptReturns(t, ok)
    \/ \E t \in DOMAIN tasks : AttemptRaises(t)
    \/ \E t \in DOMAIN tasks : BackoffElapsed(t)
    \/ \E t \in DOMAIN tasks : PacingElapsed(t)
    \/ Consume
    \/ Finish

Spec == Init /\ [][Next]_vars

(***************************************************************************)
(* The orchestrator: concurrency bound, isolation of failures, retries     *)
(***************************************************************************)
\* a task holds a slot of the semaphore from its first attempt until it has
\* returned or raised: during its attempts, its backoff sleeps and its pacing
Holding(t) == tasks[t].at \in {"fetching", "backoff", "pacing"}

SlotsHeld == Cardinality({t \in DOMAIN tasks : Holding(t)})

\* C1: at every moment of a run the number of source tasks that hold a slot
\* (in an attempt, in a backoff sleep or in the pacing sleep) is at most
\* max_concurrent, and the free slots and the held ones add up to it
C1_ConcurrencyBounded ==
    pc = "collecting" =>
        /\ SlotsHeld <= max_concurrent
        /\ semaphore + SlotsHeld = max_concurrent

\* C1: every slot is held, one of them by a task asleep between two attempts,
\* while another task waits for a slot
C1_AllSlotsHeld ==
    /\ pc = "collecting"
    /\ SlotsHeld = max_concurrent
    /\ \E t \in DOMAIN tasks : tasks[t].at = "backoff"
    /\ \E t \in DOMAIN tasks : tasks[t].at = "created"

\* the stories of list that were stamped with the source id, in their order
FromSource(list, id) ==
    LET of_source(story) == story.source_url = id
    IN  SelectSeq(list, of_source)

ReturnedError(t) == tasks[t].at = "seen_returned" /\ "error" \in DOMAIN tasks[t].result

Failed(t) == tasks[t].at = "seen_raised" \/ ReturnedError(t)

\* some step of the run can be taken: the start, a task taking a slot, an
\* attempt returning or raising, a sleep ending, the loop seeing a finished
\* task, or the hand-over to the processor once every task has been seen
CanProceed ==
    \/ pc = "start"
    \/ ENABLED (\E t \in DOMAIN tasks : Acquire(t))
    \/ pc = "collecting" /\ \E t \in DOMAIN tasks : tasks[t].at = "fetching"
    \/ ENABLED (\E t \in DOMAIN tasks : BackoffElapsed(t))
    \/ ENABLED (\E t \in DOMAIN tasks : PacingElapsed(t))
    \/ ENABLED Consume
    \/ pc = "collecting" /\ \A t \in DOMAIN tasks : Seen(t)

\* C2: a run never stops before it returns a result, whatever sources fail;
\* when the collecting loop has seen every task, the raw list handed to the
\* processor holds, for each source whose task returned, exactly the stories
\* it returned, and nothing for a source whose task raised; each failure is one
\* entry of errors and nothing else is; the result returned carries these errors
C2_FailuresIsolated ==
    /\ pc # "done" => CanProceed
    /\ (pc = "collecting" /\ \A t \in DOMAIN tasks : Seen(t)) =>
           /\ \A t \in DOMAIN tasks :
                  FromSource(all_stories, all_tasks[t].identifier) =
                      IF tasks[t].at = "seen_returned" /\ "stories" \in DOMAIN tasks[t].result
                      THEN tasks[t].result.stories
                      ELSE <<>>
           /\ Len(errors) = Cardinality({t \in DOMAIN tasks : Failed(t)})
           /\ \A t \in DOMAIN tasks :
                  Failed(t) => \E k \in DOMAIN errors :
                                  errors[k].error = IF tasks[t].at = "seen_raised"
                                                    THEN tasks[t].last_exception
                                                    ELSE tasks[t].result.error
    /\ pc = "done" => result.errors = errors /\ "stories" \in DOMAIN result

\* C2: the loop has seen every task, one source failed on every attempt and
\* the stories of another one are in the raw list
C2_OneFailsOneDelivers ==
    /\ pc = "collecting"
    /\ \A t \in DOMAIN tasks : Seen(t)
    /\ \E t \in DOMAIN tasks : tasks[t].at = "seen_raised"
    /\ \E t \in DOMAIN tasks :
           /\ tasks[t].at = "seen_returned"
           /\ FromSource(all_stories, all_tasks[t].identifier) # <<>>

\* C3: when the run is over, a website source whose every attempt raised has
\* no story in the result and exactly one entry of errors, whose source is
\* the identifier of the source
C3_ExhaustedSourceNamed ==
    pc = "done" =>
        \A t \in DOMAIN tasks :
            tasks[t].at = "seen_raised" =>
                /\ FromSource(result.stories, all_tasks[t].identifier) = <<>>
                /\ Cardinality({k \in DOMAIN result.errors :
                                   result.errors[k].source = all_tasks[t].identifier}) = 1

\* the wrapper of a task is over: it returned a value or raised
Over(t) == tasks[t].at \in {"pacing", "returned", "raised", "seen_returned", "seen_raised"}

\* C4: the attempts of a wrapped operation are numbered 0 to max_retries, one
\* after the other, so there are between 1 and max_retries + 1 of them; the
\* wrapper returns from an attempt, with the value of that attempt, and raises
\* only from the attempt numbered max_retries, with the error of that attempt;
\* once it has returned or raised it makes no attempt
C4_RetryContract ==
    [][\A t \in DOMAIN tasks :
          t \in DOMAIN tasks' =>
            /\ tasks'[t].attempt \in 0..max_retries
            /\ (tasks'[t].at = "fetching" /\ tasks[t].at # "fetching") =>
                   \/ tasks[t].at = "created" /\ tasks'[t].attempt = 0
                   \/ tasks[t].at = "backoff" /\ tasks'[t].attempt = tasks[t].attempt + 1
            /\ (tasks'[t].at = "backoff" /\ tasks[t].at # "backoff") =>
                   tasks[t].at = "fetching" /\ tasks'[t].attempt = tasks[t].attempt
            /\ (tasks'[t].at = "raised" /\ tasks[t].at # "raised") =>
                   /\ tasks[t].at = "fetching"
                   /\ tasks[t].attempt = max_retries
                   /\ tasks'[t].last_exception = ErrorOf(max_retries)
            /\ (tasks'[t].at = "pacing" /\ tasks[t].at # "pacing") =>
                   /\ tasks[t].at = "fetching"
                   /\ "error" \in DOMAIN tasks'[t].result =>
                          tasks'[t].result.error = ErrorOf(tasks[t].attempt)
            /\ Over(t) => Over(t)'
      ]_vars

\* C4: every attempt of a task raised and the wrapper raised the error of the
\* last one
C4_Exhausted ==
    \E t \in DOMAIN tasks :
        tasks[t].at = "raised" /\ tasks[t].last_exception = ErrorOf(max_retries)

(***************************************************************************)
(* The processor: the stories it returns                                   *)
(***************************************************************************)
\* the list the first call returned and the list the second call returned
Output == Deref(stories, processed)

SecondOutput == Deref(stories, reprocessed)

Absolute(link) == StartsWith(link, "http://") \/ StartsWith(link, "https://")

WellFormed(list) ==
    \A k \in DOMAIN list :
        /\ "headline" \in DOMAIN list[k]
        /\ Len(list[k].headline) >= min_headline_length
        /\ Len(list[k].headline) <= max_headline_length
        /\ "link" \in DOMAIN list[k]
        /\ Absolute(list[k].link)

C6_UniqueRepresentatives ==
    sp = "once" =>
        \A p, q \in DOMAIN Output :
            p # q =>
                /\ Output[p].link # Output[q].link
                /\ ~ratio_exceeds(Lower(Output[p].headline), Lower(Output[q].headline),
                                  similarity_threshold)

\* the four fields of a returned story
Fields(story) ==
    [headline |-> story.headline, link |-> story.link,
     date_posted |-> story.date_posted, source_domain |-> story.source_domain]

StorySet(list) == {Fields(list[k]) : k \in DOMAIN list}

\* C7: processing the list a first call returned returns the same set of
\* stories, with the same headline, link, date_posted and source_domain
C7_Idempotent ==
    [][(sp = "once" /\ sp' = "twice") => StorySet(SecondOutput') = StorySet(Output)]_vars

\* the story is returned when it is processed alone: it passes every filter
PassesAlone(story) == process_stories(<<story>>, Midnight(Today)) # <<>>

\* C8: of two raw stories with identical normalized links and different
\* headlines, which both pass every other filter, the later one is not
\* returned, and the earlier one is returned when it is the first of the list
C8_FirstLinkWins ==
    [][(sp = "ready" /\ sp' = "once") =>
          \A i, j \in DOMAIN stories :
              ( /\ i < j
                /\ normalize_url(stories[i].link) = normalize_url(stories[j].link)
                /\ stories[i].headline # stories[j].headline
                /\ PassesAlone(stories[i])
                /\ PassesAlone(stories[j]) ) =>
                    /\ j \notin Range(processed')
                    /\ i = 1 => i \in Range(processed')
      ]_vars

\* the headline of candidate j, as it is when it is compared, is too similar
\* to the headline of the accepted story i, as it is stored
TooSimilar(i, j) ==
    ratio_exceeds(Lower(stories[j].headline), Lower(stories'[i].headline),
                  similarity_threshold)

\* C9: a candidate whose lowercase headline has a ratio above
\* similarity_threshold with that of an accepted earlier story is dropped; of
\* two raw stories with different normalized links whose ratio is not above
\* the threshold, which both pass the other filters, both are returned
C9_SimilarityDedup ==
    [][(sp = "ready" /\ sp' = "once") =>
          /\ \A i, j \in DOMAIN stories :
                 (i < j /\ i \in Range(processed') /\ TooSimilar(i, j)) =>
                     j \notin Range(processed')
          /\ ( /\ Len(stories) = 2
               /\ PassesAlone(stories[1])
               /\ PassesAlone(stories[2])
               /\ normalize_url(stories[1].link) # normalize_url(stories[2].link)
               /\ ~TooSimilar(1, 2) ) =>
                     Range(processed') = {1, 2}
      ]_vars

\* the days between the date of the story and today, at midnight
DaysOld(story) ==
    Midnight(Today) - normalize_date(story.date_posted, Midnight(Today)).ord

\* the story, processed alone, passed the filters that come before the date
PassedBeforeDate(story) ==
    /\ Len(story.headline) >= min_headline_length
    /\ is_relevant(story)
    /\ normalize_date(story.date_posted, Midnight(Today)).ok

\* C10: no returned story is dated more than max_days_old days before today,
\* and a story processed alone that passes the other filters is returned
\* exactly when it is dated at most max_days_old days before today
C10_RecencyBoundary ==
    sp = "once" =>
        /\ \A k \in DOMAIN Output : DaysOld(Output[k]) <= max_days_old
        /\ (Len(stories) = 1 /\ PassedBeforeDate(stories[1])) =>
               (processed # <<>> <=> DaysOld(stories[1]) <= max_days_old)

\* C10: a story dated max_days_old days before today is returned and a
\* story dated one day earlier, which passed the other filters, is not
C10_BoundaryDays ==
    /\ sp = "once"
    /\ \E k \in DOMAIN Output : DaysOld(Output[k]) = max_days_old
    /\ \E i \in DOMAIN stories :
           /\ i \notin Range(processed)
           /\ PassedBeforeDate(stories[i])
           /\ DaysOld(stories[i]) = max_days_old + 1

\* C11: the returned list is in non-increasing order of parsed date, and of
\* two returned stories with equal parsed dates the one accepted first, which
\* is the one that comes first in the input, comes first
C11_NewestFirstStable ==
    sp = "once" =>
        \A p, q \in DOMAIN Output :
            p < q =>
                /\ DaysOld(Output[p]) <= DaysOld(Output[q])
                /\ DaysOld(Output[p]) = DaysOld(Output[q]) => processed[p] < processed[q]

\* C11: the sort moved a later, newer story in front of an earlier, older one
C11_Reordered ==
    /\ sp = "once"
    /\ processed = <<2, 1>>
    /\ DaysOld(stories[2]) < DaysOld(stories[1])

(***************************************************************************)
(* main: the entry point of crawler.py                                     *)
(***************************************************************************)
\* json.loads(s) for a text made of arrays, objects, strings without escapes
\* and whitespace: ok, the value (an array as a sequence, an object as a dict)
\* and the character its text opens with, or not ok where json.loads raises
\* JSONDecodeError
json_loads(s) ==
    LET Fail == [ok |-> FALSE, val |-> <<>>, next |-> 0]
        Ch(i) == IF i < Len(s) THEN At(s, i) ELSE ""
        Ws(i) == MinOf({k \in i..(Len(s) - 1) : At(s, k) \notin {" ", "\t", "\n", "\r"}},
                       Len(s))
        StringTo(i, close) ==
            IF close < 0 \/ \E k \in (i + 1)..(close - 1) : At(s, k) \in {"\\", "\n", "\t", "\r"}
            THEN Fail
            ELSE [ok |-> TRUE, val |-> Slice(s, i + 1, close), next |-> close + 1]
        String(i) == IF Ch(i) = "\"" THEN StringTo(i, FindFrom(s, "\"", i + 1)) ELSE Fail
        RECURSIVE Members(_, _)
        RECURSIVE ValueAt(_)
        MemberEnd(d, key, v, e) ==
            IF ~v.ok THEN Fail
            ELSE IF Ch(e) = "," THEN Members(Ws(e + 1), SetKey(d, key, v.val))
            ELSE IF Ch(e) = "}"
                 THEN [ok |-> TRUE, val |-> SetKey(d, key, v.val), next |-> e + 1]
            ELSE Fail
        MemberValue(d, key, v) == MemberEnd(d, key, v, Ws(v.next))
        MemberColon(d, key, c) ==
            IF ~key.ok \/ Ch(c) # ":" THEN Fail
            ELSE MemberValue(d, key.val, ValueAt(Ws(c + 1)))
        MemberKey(d, key) == MemberColon(d, key, Ws(key.next))
        Members(i, d) == MemberKey(d, String(i))
        ObjectAt(i, j) ==
            IF Ch(i) # "{" THEN Fail
            ELSE IF Ch(j) = "}" THEN [ok |-> TRUE, val |-> <<>>, next |-> j + 1]
            ELSE Members(j, <<>>)
        Object(i) == ObjectAt(i, Ws(i + 1))
        RECURSIVE Elements(_, _)
        ElementEnd(list, o, e) ==
            IF ~o.ok THEN Fail
            ELSE IF Ch(e) = "," THEN Elements(Ws(e + 1), Append(list, o.val))
            ELSE IF Ch(e) = "]"
                 THEN [ok |-> TRUE, val |-> Append(list, o.val), next |-> e + 1]
            ELSE Fail
        Element(list, o) == ElementEnd(list, o, Ws(o.next))
        Elements(i, list) == Element(list, ValueAt(i))
        ArrayAt(i, j) ==
            IF Ch(j) = "]" THEN [ok |-> TRUE, val |-> <<>>, next |-> j + 1]
            ELSE Elements(j, <<>>)
        ValueAt(i) ==
            IF Ch(i) = "[" THEN ArrayAt(i, Ws(i + 1))
            ELSE IF Ch(i) = "{" THEN Object(i)
            ELSE String(i)
        Whole(v, i) ==
            IF v.ok /\ Ws(v.next) = Len(s)
            THEN [ok |-> TRUE, val |-> v.val, opens |-> Ch(i)]
            ELSE [ok |-> FALSE, val |-> <<>>, opens |-> ""]
    IN  Whole(ValueAt(Ws(0)), Ws(0))

\* main up to the call of process_sources, and the two except clauses: the
\* argument is parsed; a JSONDecodeError, and the KeyError or TypeError that
\* process_sources raises when it reads the type of each source and the
\* identifier of each website source, end the process with sys.exit(1).
\* The elements of an array are objects; an empty object and an empty string
\* have no element to read
ParseArgs ==
    /\ pc = "main"
    /\ LET enter(loaded) ==
               IF /\ loaded.ok
                  /\ CASE loaded.opens = "[" ->
                              \A k \in DOMAIN loaded.val :
                                  /\ "type" \in DOMAIN loaded.val[k]
                                  /\ loaded.val[k]["type"] = "website" =>
                                         "identifier" \in DOMAIN loaded.val[k]
                       [] loaded.opens = "{" -> DOMAIN loaded.val = {}
                       [] OTHER -> loaded.val = ""
               THEN /\ sources' = IF loaded.opens = "[" THEN loaded.val ELSE <<>>
                    /\ pc' = "start"
                    /\ exit_status' = exit_status
               ELSE sources' = sources /\ pc' = "exited" /\ exit_status' = 1
       IN  enter(json_loads(argv))
    /\ UNCHANGED <<twitter_token, max_concurrent, domains, all_tasks, tasks, semaphore,
                   done_queue, all_stories, errors, result, procVars, argv, stdout,
                   classVars, retryVars, lookups, response>>

\* a process that ends with status 0 and has printed nothing
PrintResult_silent ==
    /\ pc = "done"
    /\ exit_status = -1
    /\ exit_status' = 0
    /\ pc' = "exited"
    /\ UNCHANGED <<sources, twitter_token, max_concurrent, domains, all_tasks, tasks,
                   semaphore, done_queue, all_stories, errors, result, procVars, argv,
                   stdout, classVars, retryVars, lookups, response>>

\* print(json.dumps(result)), and the process ends with status 0. json.dumps
\* writes the dicts of a list with their keys in insertion order, which keys
\* gives, and escapes the quote, the backslash and the control characters
PrintResult ==
    /\ pc = "done"
    /\ exit_status = -1
    /\ LET Escape(c) ==
               CASE c = "\"" -> "\\\""
                 [] c = "\\" -> "\\\\"
                 [] c = "\n" -> "\\n"
                 [] c = "\r" -> "\\r"
                 [] c = "\t" -> "\\t"
                 [] OTHER -> c
           RECURSIVE EscapeIn(_, _, _)
           EscapeIn(t, lo, hi) ==
               IF hi <= lo THEN ""
               ELSE IF hi = lo + 1 THEN Escape(At(t, lo))
               ELSE EscapeIn(t, lo, (lo + hi) \div 2) \o EscapeIn(t, (lo + hi) \div 2, hi)
           String(t) == "\"" \o EscapeIn(t, 0, Len(t)) \o "\""
           RECURSIVE Pairs(_, _, _, _)
           Pairs(d, keys, k, sep) ==
               IF k > Len(keys) THEN ""
               ELSE IF keys[k] \in DOMAIN d
                    THEN sep \o String(keys[k]) \o ": " \o String(d[keys[k]])
                             \o Pairs(d, keys, k + 1, ", ")
               ELSE Pairs(d, keys, k + 1, sep)
           RECURSIVE Items(_, _, _)
           Items(list, keys, k) ==
               IF k > Len(list) THEN ""
               ELSE (IF k > 1 THEN ", " ELSE "") \o "{" \o Pairs(list[k], keys, 1, "") \o "}"
                        \o Items(list, keys, k + 1)
           json_dumps(res) ==
               "{\"stories\": ["
                   \o Items(res.stories,
                            <<"headline", "link", "date_posted", "source_type", "source_url",
                              "source_domain">>, 1)
                   \o "], \"errors\": ["
                   \o Items(res.errors, <<"source", "error">>, 1)
                   \o "]}"
       IN  stdout' = Append(stdout, json_dumps(result))
    /\ exit_status' = 0
    /\ pc' = "exited"
    /\ UNCHANGED <<sources, twitter_token, max_concurrent, domains, all_tasks, tasks,
                   semaphore, done_queue, all_stories, errors, result, procVars, argv,
                   classVars, retryVars, lookups, response>>

\* sys.argv[1]: arrays of sources, an empty array and an empty object, arrays
\* that are not arrays of sources, and texts that are not JSON
ArgPool ==
    {"[]",
     "{}",
     "[{\"identifier\": \"https://example.com\", \"type\": \"website\"}]",
     " [ {\"type\":\"website\",\"identifier\":\"https://news.site/ai/\"} ,\n"
         \o "   {\"identifier\": \"https://x.com/acct\", \"type\": \"twitter\"} ]\n",
     "[{\"identifier\": \"https://example.com\", \"type\": \"rss\"}]",
     "[{\"identifier\": \"https://example.com\"}]",
     "{\"identifier\": \"https://example.com\", \"type\": \"website\"}",
     "[{\"identifier\": \"https://example.com\", \"type\": \"website\"}",
     "[{'identifier': 'https://example.com', 'type': 'website'}]",
     "[{\"identifier\": \"https://example.com\", \"type\": \"website\"},]",
     "https://example.com",
     ""}

MainInit ==
    /\ argv \in ArgPool
    /\ sources = <<>>
    /\ twitter_token \in {"", "token"}
    /\ max_concurrent \in 1..MaxConcurrent
    /\ domains = ConfiguredDomains
    /\ pc = "main"
    /\ all_tasks = <<>>
    /\ tasks = <<>>
    /\ semaphore = 0
    /\ done_queue = <<>>
    /\ all_stories = <<>>
    /\ errors = <<>>
    /\ result = NoResult
    /\ stories = <<>>
    /\ processed = <<>>
    /\ reprocessed = <<>>
    /\ sp = "idle"
    /\ stdout = <<>>
    /\ exit_status = -1
    /\ exception = ""
    /\ classified = <<>>
    /\ exceptions = {"Exception"}
    /\ call = NoCall
    /\ lookups = <<>>
    /\ response = NoResponse

MainNext == ParseArgs \/ Next \/ PrintResult

MainSpec == MainInit /\ [][MainNext]_vars

\* C12: started with one argument that is a JSON array of sources, the process
\* writes exactly one line to standard output, a JSON object whose keys are
\* stories and errors, and exits with status 0; started with a text that is not
\* JSON it exits with a non-zero status and writes nothing. Nothing is written
\* before the process exits.
C12_ArraysOfSources ==
    {"[]",
     "[{\"identifier\": \"https://example.com\", \"type\": \"website\"}]",
     " [ {\"type\":\"website\",\"identifier\":\"https://news.site/ai/\"} ,\n"
         \o "   {\"identifier\": \"https://x.com/acct\", \"type\": \"twitter\"} ]\n",
     "[{\"identifier\": \"https://example.com\", \"type\": \"rss\"}]"}

C12_NotJSON ==
    {"[{\"identifier\": \"https://example.com\", \"type\": \"website\"}",
     "[{'identifier': 'https://example.com', 'type': 'website'}]",
     "[{\"identifier\": \"https://example.com\", \"type\": \"website\"},]",
     "https://example.com",
     ""}

C13_OneGoodStory ==
    /\ Len(ExtractedStories("https://example.com")) = 1
    /\ is_relevant(ExtractedStories("https://example.com")[1])
    /\ ExtractedStories("https://example.com")[1].date_posted = strftime_ymd(Today)
    /\ Len(clean_headline(ExtractedStories("https://example.com")[1].headline))
           \in min_headline_length..max_headline_length

C13_SingleSource ==
    /\ C13_OneGoodStory
    /\ pc = "done"
    /\ sources = <<[identifier |-> "https://example.com", type |-> "website"]>>
    /\ tasks[1].at = "seen_returned"
    /\ "error" \notin DOMAIN tasks[1].result

C13_HappyPath ==
    C13_SingleSource =>
        /\ result.errors = <<>>
        /\ result.stories =
               <<[headline |-> "OpenAI ships a new model",
                  link |-> "https://example.com/a",
                  date_posted |-> strftime_ymd(Today),
                  source_type |-> "website",
                  source_url |-> "https://example.com",
                  source_domain |-> "example.com"]>>

\* C14: in the collecting loop, a collected result that has an error adds
\* exactly one entry {source: the identifier of its source, error: its error}
\* to errors, a collected result without an error adds none, and the stories
\* of every collected result, with or without an error, are appended: the raw
\* list is the concatenation of the stories of the collected results in the
\* order of their collection. errors holds at most one entry for each accepted
\* source, and no more entries than there are tasks.
C14_Collected == {t \in DOMAIN tasks : tasks[t].at = "seen_returned"}

C14_Concatenated(order) ==
    LET RECURSIVE Stories(_)
        Stories(k) == IF k > Len(order) THEN <<>>
                      ELSE tasks[order[k]].result.stories \o Stories(k + 1)
    IN  Stories(1)

C14_EntriesFor(t) == {k \in DOMAIN errors : errors[k].source = all_tasks[t].identifier}

C14_CollectLoop ==
    pc \in {"collecting", "done"} =>
        /\ \A t \in C14_Collected :
               IF "error" \in DOMAIN tasks[t].result
               THEN /\ Cardinality(C14_EntriesFor(t)) = 1
                    /\ \A k \in C14_EntriesFor(t) : errors[k].error = tasks[t].result.error
               ELSE C14_EntriesFor(t) = {}
        /\ \A t \in DOMAIN tasks : Cardinality(C14_EntriesFor(t)) <= 1
        /\ Len(errors) <= Len(all_tasks)
        /\ pc = "collecting" =>
               \E order \in Arrangements(C14_Collected, Len(tasks)) :
                   /\ Range(order) = C14_Collected
                   /\ Len(order) = Cardinality(C14_Collected)
                   /\ all_stories = C14_Concatenated(order)

C14_TwoCollected ==
    /\ pc = "collecting"
    /\ Cardinality(C14_Collected) = 2
    /\ \E t \in C14_Collected : "error" \in DOMAIN tasks[t].result
    /\ \E t \in C14_Collected : tasks[t].result.stories # <<>>
    /\ Len(all_stories) >= 1

\* C15: when the credential of the social feed is absent, no social-feed
\* source gets a task and none contributes a story or an error, and the
\* website sources are scheduled as they are when the credential is present:
\* with or without it the website tasks are the website sources in the order
\* of their priorities.
C15_WebsiteSchedule ==
    sort_by_priority(priorities(SelectSeq(sources, IsWebsite), 1, ConfiguredDomains).list)

C15_SocialIdentifiers == {sources[k].identifier : k \in {j \in DOMAIN sources : IsTwitter(sources[j])}}

C15_NoCredentials ==
    pc \in {"collecting", "done"} =>
        /\ SelectSeq(all_tasks, IsWebsite) = TaskSources(C15_WebsiteSchedule, <<>>)
        /\ twitter_token = "" =>
               /\ all_tasks = TaskSources(C15_WebsiteSchedule, <<>>)
               /\ \A k \in DOMAIN all_stories :
                      /\ all_stories[k].source_url \notin C15_SocialIdentifiers
                      /\ all_stories[k].source_type # "twitter"
               /\ \A k \in DOMAIN errors : errors[k].source \notin C15_SocialIdentifiers
               /\ pc = "done" =>
                      /\ \A k \in DOMAIN result.stories :
                             result.stories[k].source_url \notin C15_SocialIdentifiers
                      /\ \A k \in DOMAIN result.errors :
                             result.errors[k].source \notin C15_SocialIdentifiers

C15_SocialSkipped ==
    /\ pc = "done"
    /\ twitter_token = ""
    /\ C15_SocialIdentifiers # {}
    /\ Len(all_tasks) = 1
    /\ result.stories # <<>>

(***************************************************************************)
(* classify_exception called on its own (retry_mechanism.py)               *)
(***************************************************************************)
\* a classifier that looks for a network term before a rate-limit term
classify_exception_network_first(e) ==
    LET error_str == Lower(e)
        is_rate_limit_error ==
            \E term \in {"rate limit", "too many requests", "429", "throttl", "quota exceeded"} :
                Contains(error_str, term)
        is_network_error ==
            \E term \in {"connection", "timeout", "timed out", "reset by peer", "network",
                         "socket", "dns", "unreachable"} :
                Contains(error_str, term)
    IN  IF is_network_error THEN [type |-> "NetworkException", str |-> e]
        ELSE IF is_rate_limit_error THEN [type |-> "RateLimitException", str |-> e]
        ELSE [type |-> "Exception", str |-> e]

\* classify_exception(exception), with is_rate_limit_error and is_network_error:
\* the class of the exception it returns and its str(); e is str(exception),
\* and the exception that is returned as it came is an Exception
classify_exception(e) ==
    LET error_str == Lower(e)
        is_rate_limit_error ==
            \E term \in {"rate limit", "too many requests", "429", "throttl", "quota exceeded"} :
                Contains(error_str, term)
        is_network_error ==
            \E term \in {"connection", "timeout", "timed out", "reset by peer", "network",
                         "socket", "dns", "unreachable"} :
                Contains(error_str, term)
    IN  IF is_rate_limit_error THEN [type |-> "RateLimitException", str |-> e]
        ELSE IF is_network_error THEN [type |-> "NetworkException", str |-> e]
        ELSE [type |-> "Exception", str |-> e]

\* the error texts classify_exception is called with: every term of the two
\* lists of the source and words that are near to one, in a sentence and in
\* capitals, and the texts that hold a term of each list, in both orders
ErrorPool ==
    LET RateWords == {"rate limit", "too many requests", "429", "throttl", "quota exceeded"}
        NetworkWords == {"connection", "timeout", "timed out", "reset by peer", "network",
                         "socket", "dns", "unreachable"}
        OtherWords == {"invalid extraction schema", "time out", "rate-limit", "42 9", ""}
        UpperChar(c) == IF c \in LowerSet THEN CHOOSE u \in UpperSet : LowerOf[u] = c ELSE c
        RECURSIVE UpperIn(_, _)
        UpperIn(s, i) == IF i >= Len(s) THEN "" ELSE UpperChar(At(s, i)) \o UpperIn(s, i + 1)
    IN  {"HTTP error: " \o w \o " (giving up)" : w \in RateWords \cup NetworkWords \cup OtherWords}
            \cup {UpperIn(w, 0) : w \in RateWords \cup NetworkWords \cup OtherWords}
            \cup {r \o " after " \o n : r \in RateWords, n \in NetworkWords}
            \cup {n \o ", then " \o r : r \in RateWords, n \in NetworkWords}

Classify ==
    /\ classified = <<>>
    /\ exceptions = {"Exception"}
    /\ call = NoCall
    /\ lookups = <<>>
    /\ response = NoResponse
    /\ classified' = classify_exception(exception)
    /\ UNCHANGED <<orchVars, procVars, mainVars, exception, retryVars, lookups, response>>

ClassInit ==
    /\ exception \in ErrorPool
    /\ classified = <<>>
    /\ exceptions = {"Exception"}
    /\ call = NoCall
    /\ lookups = <<>>
    /\ response = NoResponse
    /\ sources = <<>>
    /\ twitter_token = ""
    /\ max_concurrent = 1
    /\ domains = ConfiguredDomains
    /\ pc = "idle"
    /\ all_tasks = <<>>
    /\ tasks = <<>>
    /\ semaphore = 0
    /\ done_queue = <<>>
    /\ all_stories = <<>>
    /\ errors = <<>>
    /\ result = NoResult
    /\ stories = <<>>
    /\ processed = <<>>
    /\ reprocessed = <<>>
    /\ sp = "idle"
    /\ argv = ""
    /\ stdout = <<>>
    /\ exit_status = -1

ClassNext == Classify

ClassSpec == ClassInit /\ [][ClassNext]_vars

\* the text holds the term, whatever the case of its letters
C16_Mentions(text, term) ==
    \E i \in 0..(Len(text) - Len(term)) :
        \A j \in 0..(Len(term) - 1) : LowerChar(At(text, i + j)) = At(term, j)

C16_RateLimitTerms == {"rate limit", "429", "throttl", "quota exceeded", "too many requests"}

C16_NetworkTerms ==
    {"timeout", "connection", "reset by peer", "dns", "unreachable", "socket", "network"}

C16_KindBy(network_terms) ==
    IF \E term \in C16_RateLimitTerms : C16_Mentions(exception, term)
    THEN "RateLimitException"
    ELSE IF \E term \in network_terms : C16_Mentions(exception, term)
    THEN "NetworkException"
    ELSE "Exception"

\* C16 as stated: the classifier answers RateLimit when the text holds, in any
\* case, one of 'rate limit', '429', 'throttl', 'quota exceeded', 'too many
\* requests'; otherwise Network when it holds one of 'timeout', 'connection',
\* 'reset by peer', 'dns', 'unreachable', 'socket', 'network'; otherwise the
\* error as it came.
C16_AsStated ==
    classified # <<>> =>
        /\ classified.type = C16_KindBy(C16_NetworkTerms)
        /\ classified.str = exception

\* C16, amended: the same with 'timed out' among the network terms.
C16_Classified ==
    classified # <<>> =>
        /\ classified.type = C16_KindBy(C16_NetworkTerms \cup {"timed out"})
        /\ classified.str = exception

C16_BothSets ==
    /\ classified # <<>>
    /\ \E term \in C16_RateLimitTerms : C16_Mentions(exception, term)
    /\ \E term \in C16_NetworkTerms : C16_Mentions(exception, term)
    /\ classified.type = "RateLimitException"

\* C17: within one call of the retrying wrapper the attempts follow one
\* another, each after one backoff sleep: attempt k+1 starts only when the
\* sleep that followed the failure of attempt k ends, a sleep starts only when
\* an attempt that is not the last one has failed, so none follows an attempt
\* that returned or the failure of attempt max_retries + 1, and a task is in
\* one attempt or one sleep at a time.
C17_InSleep(t) == tasks[t].at = "backoff"

C17_InAttempt(t) == tasks[t].at = "fetching"

C17_SleepStarts(t) == ~C17_InSleep(t) /\ tasks'[t].at = "backoff"

C17_AttemptStarts(t) ==
    /\ tasks'[t].at = "fetching"
    /\ ~C17_InAttempt(t) \/ tasks'[t].attempt # tasks[t].attempt

C17_Steps ==
    \A t \in DOMAIN tasks \cap DOMAIN tasks' :
        /\ C17_AttemptStarts(t) =>
               \/ tasks[t].at = "created" /\ tasks'[t].attempt = 0
               \/ C17_InSleep(t) /\ tasks'[t].attempt = tasks[t].attempt + 1
        /\ C17_SleepStarts(t) =>
               /\ C17_InAttempt(t)
               /\ tasks[t].attempt < max_retries
               /\ tasks'[t].attempt = tasks[t].attempt
               /\ tasks'[t].last_exception = ErrorOf(tasks[t].attempt)
        /\ C17_InSleep(t) /\ tasks'[t] # tasks[t] => C17_AttemptStarts(t)

C17_SequentialAttempts ==
    /\ [](\A t \in DOMAIN tasks :
              /\ tasks[t].attempt \in 0..max_retries
              /\ C17_InSleep(t) => tasks[t].attempt < max_retries)
    /\ [][C17_Steps]_vars

C17_LastAttemptFailed ==
    \E t \in DOMAIN tasks :
        /\ tasks[t].at = "raised"
        /\ tasks[t].attempt = max_retries

(***************************************************************************)
(* retry_decorator on its own: one call of async_wrapper around a function *)
(* whose attempts return or raise                                          *)
(***************************************************************************)
\* what one attempt of the wrapped function does: it returns, or raises an
\* exception of a class with a text
Outcomes ==
    {[ok |-> TRUE, class |-> "", text |-> ""]}
        \cup [ok : {FALSE},
              class : {"ValueError", "TimeoutError", "ConnectionError", "CancelledError"},
              text : {"Invalid extraction schema", "HTTP 429 Too Many Requests",
                      "Connection reset by peer"}]

\* the exceptions argument of retry_decorator: the default, which the crawler
\* uses, and two narrower ones
ConfiguredExceptions == {{"Exception"}, {"OSError"}, {"ConnectionError", "ValueError"}}

\* a wrapper whose except clause catches every exception
async_wrapper_catches_all(outcome) ==
    /\ call.at = "attempt"
    /\ IF outcome.ok
       THEN call' = [call EXCEPT !.at = "returned"]
       ELSE IF ~is_last(call.attempt)
            THEN call' = [call EXCEPT !.at = "sleep", !.sleeps = @ + 1,
                                      !.last_exception = outcome]
            ELSE call' = [call EXCEPT !.at = "raised", !.last_exception = outcome]
    /\ UNCHANGED <<orchVars, procVars, mainVars, classVars, exceptions, lookups, response>>

\* a wrapper that retries only what classify_exception knows
async_wrapper_gated(outcome) ==
    /\ call.at = "attempt"
    /\ IF outcome.ok
       THEN call' = [call EXCEPT !.at = "returned"]
       ELSE IF ~is_last(call.attempt) /\ classify_exception(outcome.text).type # "Exception"
            THEN call' = [call EXCEPT !.at = "sleep", !.sleeps = @ + 1,
                                      !.last_exception = outcome]
            ELSE call' = [call EXCEPT !.at = "raised", !.last_exception = outcome]
    /\ UNCHANGED <<orchVars, procVars, mainVars, classVars, exceptions, lookups, response>>

\* one turn of for attempt in range(max_retries + 1), up to the sleep: the
\* attempt returns and the wrapper returns with it; it raises an exception
\* that except exceptions as e does not catch, which leaves the wrapper; or it
\* raises one that is caught and kept as last_exception, and the wrapper sleeps
\* when attempt < max_retries and raises last_exception after the last turn.
\* isinstance follows the classes of the language
async_wrapper(outcome) ==
    /\ call.at = "attempt"
    /\ LET Bases(class) ==
               CASE class \in {"TimeoutError", "ConnectionError"} ->
                        {class, "OSError", "Exception", "BaseException"}
                 [] class = "ValueError" -> {class, "Exception", "BaseException"}
                 [] class = "CancelledError" -> {class, "BaseException"}
           isinstance(class, classes) == Bases(class) \cap classes # {}
       IN  IF outcome.ok
           THEN call' = [call EXCEPT !.at = "returned"]
           ELSE IF ~isinstance(outcome.class, exceptions)
                THEN call' = [call EXCEPT !.at = "propagated", !.last_exception = outcome]
                ELSE IF ~is_last(call.attempt)
                     THEN call' = [call EXCEPT !.at = "sleep", !.sleeps = @ + 1,
                                               !.last_exception = outcome]
                     ELSE call' = [call EXCEPT !.at = "raised", !.last_exception = outcome]
    /\ UNCHANGED <<orchVars, procVars, mainVars, classVars, exceptions, lookups, response>>

\* await asyncio.sleep(sleep_time) is over: the next turn of the loop
SleepElapsed ==
    /\ call.at = "sleep"
    /\ call' = [call EXCEPT !.at = "attempt", !.attempt = @ + 1]
    /\ UNCHANGED <<orchVars, procVars, mainVars, classVars, exceptions, lookups, response>>

RetryInit ==
    /\ exceptions \in ConfiguredExceptions
    /\ call = [at |-> "attempt", attempt |-> 0, sleeps |-> 0, last_exception |-> <<>>]
    /\ lookups = <<>>
    /\ response = NoResponse
    /\ exception = ""
    /\ classified = <<>>
    /\ sources = <<>>
    /\ twitter_token = ""
    /\ max_concurrent = 1
    /\ domains = ConfiguredDomains
    /\ pc = "idle"
    /\ all_tasks = <<>>
    /\ tasks = <<>>
    /\ semaphore = 0
    /\ done_queue = <<>>
    /\ all_stories = <<>>
    /\ errors = <<>>
    /\ result = NoResult
    /\ stories = <<>>
    /\ processed = <<>>
    /\ reprocessed = <<>>
    /\ sp = "idle"
    /\ argv = ""
    /\ stdout = <<>>
    /\ exit_status = -1

RetryNext == (\E outcome \in Outcomes : async_wrapper(outcome)) \/ SleepElapsed

RetrySpec == RetryInit /\ [][RetryNext]_vars

\* the classes whose instances the configured exceptions catch
C18_Caught ==
    CASE exceptions = {"Exception"} -> {"ValueError", "TimeoutError", "ConnectionError"}
      [] exceptions = {"OSError"} -> {"TimeoutError", "ConnectionError"}
      [] exceptions = {"ConnectionError", "ValueError"} -> {"ConnectionError", "ValueError"}

C18_FailedWith(c) == c.last_exception # <<>> /\ c.at # "attempt"

\* C18: a failure that is not an instance of the configured exceptions leaves
\* the wrapper on the attempt where it occurs, whatever the number of retries
\* that remain: the wrapper does not sleep after it (it has slept once before
\* each of its earlier retries and no more) and makes no further attempt.
C18_NonRetryablePropagates ==
    /\ [](C18_FailedWith(call) /\ call.last_exception.class \notin C18_Caught =>
              /\ call.at = "propagated"
              /\ call.sleeps = call.attempt)
    /\ [][call.at = "propagated" => call' = call]_vars

C18_PropagatedEarly ==
    /\ call.at = "propagated"
    /\ call.attempt = 1
    /\ call.attempt < max_retries
    /\ call.last_exception.class \notin C18_Caught

\* C19: the kind classify_exception gives to an error has no part in the
\* retrying: an attempt that fails with an error of a caught class is followed
\* by a sleep exactly when it is not the last attempt, whether the text of the
\* error classifies as RateLimit, Network or Other, and the sleeps made are as
\* many as the failed attempts before the present one.
C19_Failure ==
    /\ call.at = "attempt"
    /\ call'.at \in {"sleep", "raised", "propagated"}
    /\ call'.last_exception.class \in C18_Caught

C19_KindNeverGates ==
    /\ [](call.sleeps = IF call.at = "sleep" THEN call.attempt + 1 ELSE call.attempt)
    /\ [][C19_Failure =>
              \A type \in {"RateLimitException", "NetworkException", "Exception"} :
                  classify_exception(call'.last_exception.text).type = type =>
                      /\ call'.at = "sleep" <=> call.attempt < max_retries
                      /\ call'.at = "raised" <=> call.attempt = max_retries
                      /\ call'.attempt = call.attempt]_vars

C19_OtherRetried ==
    /\ exceptions = {"Exception"}
    /\ call.at = "sleep"
    /\ call.attempt = 2
    /\ classify_exception(call.last_exception.text).type = "Exception"

\* C20: in every source task the slot is given back only when the pacing
\* sleep that follows the fetch, retries included, is over, whether the fetch
\* succeeded or failed; while a task paces its slot is counted as taken, so no
\* waiting task can take it.
C20_Releases(t) ==
    /\ Holding(t)
    /\ tasks'[t].at \notin {"fetching", "backoff", "pacing"}

C20_PacedBeforeRelease ==
    /\ [](pc = "collecting" => semaphore = max_concurrent - SlotsHeld)
    /\ [][\A t \in DOMAIN tasks \cap DOMAIN tasks' :
              C20_Releases(t) => tasks[t].at = "pacing"]_vars

\* C21: an exception that leaves a source task is caught when the collecting
\* loop comes to that task: it adds exactly one entry to errors, whose source
\* is "unknown" and whose error is the text of the exception, it adds no story,
\* and the loop goes on: the run returns only when every task has been seen.
C21_UnknownEntries == {k \in DOMAIN errors : errors[k].source = "unknown"}

C21_Escaped == {t \in DOMAIN tasks : tasks[t].at = "seen_raised"}

C21_CollectsEscaped ==
    \E t \in DOMAIN tasks \cap DOMAIN tasks' :
        tasks[t].at = "raised" /\ tasks'[t].at = "seen_raised"

C21_EscapedCaught ==
    /\ [](pc \in {"collecting", "done"} =>
              /\ Cardinality(C21_UnknownEntries) = Cardinality(C21_Escaped)
              /\ \A t \in C21_Escaped :
                     \E k \in C21_UnknownEntries : errors[k].error = tasks[t].last_exception)
    /\ [](pc = "done" => \A t \in DOMAIN tasks : Seen(t))
    /\ [][C21_CollectsEscaped =>
              /\ pc' = "collecting"
              /\ errors' = Append(errors, errors'[Len(errors')])
              /\ errors'[Len(errors')].source = "unknown"
              /\ all_stories' = all_stories]_vars

C21_CollectedAfterEscape ==
    /\ pc = "done"
    /\ Len(errors) = 2
    /\ errors[1].source = "unknown"
    /\ errors[2].source # "unknown"

\* C22: the stories returned do not depend on the order in which the tasks
\* finish: with the results the tasks returned, the run returns what the
\* processor makes of these results taken in the order of the tasks.
C22_InTaskOrder ==
    LET RECURSIVE Results(_)
        Results(t) == IF t > Len(tasks) THEN <<>>
                   ELSE (IF tasks[t].at = "seen_returned" /\ "stories" \in DOMAIN tasks[t].result
                         THEN tasks[t].result.stories
                         ELSE <<>>) \o Results(t + 1)
    IN  Results(1)

C22_OrderIndependent ==
    pc = "done" => result.stories = process_stories(C22_InTaskOrder, Midnight(Today))

\* the event loop runs whatever is ready, every attempt ends and every sleep
\* is over at some time: a step that can be taken is taken. This is
\* WF_vars(Next) written out, with CanProceed for ENABLED <<Next>>_vars
FairSpec == Spec /\ ([]<>(~CanProceed) \/ []<><<Next>>_vars)

\* C23: with attempts that end and a fair scheduler, every accepted source has
\* one task, every task takes a slot once, is seen by the collecting loop once
\* and stays as the loop saw it, and the run returns; at that time every task
\* has been seen, whatever the priority or the position of its source.
C23_Accepted ==
    Cardinality({k \in DOMAIN sources :
                    \/ IsWebsite(sources[k])
                    \/ IsTwitter(sources[k]) /\ twitter_token # ""})

C23_OnceOnly ==
    \A t \in DOMAIN tasks \cap DOMAIN tasks' :
        /\ tasks[t].at # "created" => tasks'[t].at # "created"
        /\ Seen(t) => tasks'[t] = tasks[t]

C23_EveryTaskRuns ==
    /\ <>(pc = "done")
    /\ [](pc = "done" => \A t \in DOMAIN tasks : Seen(t))
    /\ [](pc \in {"collecting", "done"} =>
              /\ Len(tasks) = C23_Accepted
              /\ \A k \in DOMAIN sources :
                     (IsWebsite(sources[k]) \/ twitter_token # "") =>
                         Cardinality({t \in DOMAIN all_tasks : all_tasks[t] = sources[k]}) = 1)
    /\ [][C23_OnceOnly]_vars

C23_WaitedAndRan ==
    /\ pc = "done"
    /\ max_concurrent = 1
    /\ Len(tasks) = 2
    /\ \A t \in DOMAIN tasks : Seen(t)

\* C24: no task is cancelled or timed out: a slot is given back only in the
\* step in which the task that holds it finishes, by its return or by its
\* exception, and it is given back in every such step; so while a task stays
\* in its fetch it holds its slot, and while max_concurrent tasks do, no
\* waiting task can take a slot and no waiting task starts.
C24_Finishes(t) ==
    /\ tasks[t].at \notin {"returned", "raised"}
    /\ tasks'[t].at \in {"returned", "raised"}

C24_AllSlotsInFetch ==
    /\ pc = "collecting"
    /\ Cardinality({t \in DOMAIN tasks : tasks[t].at = "fetching"}) = max_concurrent

C24_Steps ==
    /\ \A t \in DOMAIN tasks \cap DOMAIN tasks' :
           /\ C20_Releases(t) => C24_Finishes(t)
           /\ C24_Finishes(t) => Holding(t) /\ semaphore' = semaphore + 1
    /\ pc = "collecting" /\ semaphore' > semaphore =>
           \E t \in DOMAIN tasks : C24_Finishes(t)
    /\ C24_AllSlotsInFetch =>
           \A t \in DOMAIN tasks : tasks[t].at = "created" => tasks'[t].at = "created"

C24_SlotHeldUntilFinished ==
    /\ [](C24_AllSlotsInFetch =>
              /\ semaphore = 0
              /\ ~ENABLED (\E t \in DOMAIN tasks : Acquire(t)))
    /\ [][C24_Steps]_vars

C24_WaitingBehindFetch ==
    /\ C24_AllSlotsInFetch
    /\ \E t \in DOMAIN tasks : tasks[t].at = "created"

(***************************************************************************)
(* The start of process_sources on its own, with websites of equal and of  *)
(* different priorities                                                    *)
(***************************************************************************)
\* two websites of the configured domain news.site (priority 5), one of them
\* by its subdomain, two websites of unseen domains (priority 0), and a feed
SchedulePool ==
    {[identifier |-> "https://example.com", type |-> "website"],
     [identifier |-> "https://news.site/ai/", type |-> "website"],
     [identifier |-> "https://blog.news.site/", type |-> "website"],
     [identifier |-> "https://other.org/feed", type |-> "website"],
     [identifier |-> "https://x.com/acct", type |-> "twitter"]}

SchedInit ==
    /\ sources \in {q \in Arrangements(SchedulePool, MaxSources + 1) :
                       Len(q) >= 1 /\ Cardinality(Range(q)) = Len(q)}
    /\ twitter_token \in {"", "token"}
    /\ max_concurrent = 1
    /\ domains = ConfiguredDomains
    /\ pc = "start"
    /\ all_tasks = <<>>
    /\ tasks = <<>>
    /\ semaphore = 0
    /\ done_queue = <<>>
    /\ all_stories = <<>>
    /\ errors = <<>>
    /\ result = NoResult
    /\ stories = <<>>
    /\ processed = <<>>
    /\ reprocessed = <<>>
    /\ sp = "idle"
    /\ argv = ""
    /\ stdout = <<>>
    /\ exit_status = -1
    /\ exception = ""
    /\ classified = <<>>
    /\ exceptions = {"Exception"}
    /\ call = NoCall
    /\ lookups = <<>>
    /\ response = NoResponse

SchedSpec == SchedInit /\ [][Start]_vars

\* C25: the website sources are submitted in descending order of the priority
\* of their domains, those of equal priority in the order they have in
\* sources, before the social-feed sources; the websites submitted are the
\* websites of sources, each once.
C25_Priority(source) == get_domain_settings(ConfiguredDomains, source.identifier).settings.priority

C25_PositionIn(source) == CHOOSE k \in DOMAIN sources : sources[k] = source

C25_Submitted == SelectSeq(all_tasks, IsWebsite)

C25_PriorityOrder ==
    pc = "collecting" =>
        /\ \A p, q \in DOMAIN C25_Submitted :
               p < q =>
                   /\ C25_Priority(C25_Submitted[p]) >= C25_Priority(C25_Submitted[q])
                   /\ C25_Priority(C25_Submitted[p]) = C25_Priority(C25_Submitted[q]) =>
                          C25_PositionIn(C25_Submitted[p]) < C25_PositionIn(C25_Submitted[q])
        /\ Range(C25_Submitted) = {sources[k] : k \in {j \in DOMAIN sources : IsWebsite(sources[j])}}
        /\ Len(C25_Submitted) = Cardinality(Range(C25_Submitted))
        /\ \A p \in DOMAIN all_tasks :
               IsWebsite(all_tasks[p]) <=> p <= Len(C25_Submitted)

C25_TieKept ==
    /\ pc = "collecting"
    /\ sources = <<[identifier |-> "https://other.org/feed", type |-> "website"],
                   [identifier |-> "https://blog.news.site/", type |-> "website"],
                   [identifier |-> "https://news.site/ai/", type |-> "website"]>>
    /\ all_tasks = <<sources[2], sources[3], sources[1]>>

\* C26: every story of the raw list that is handed to the processor is a
\* story that the fetch of a collected source returned, and carries
\* source_url equal to the identifier of that source and source_type equal to
\* its type.
C26_Fetched(source) ==
    IF IsWebsite(source)
    THEN scrape_website(source.identifier, TRUE, "").stories
    ELSE scrape_twitter(source.identifier, TRUE, "").stories

C26_SameStory(story, fetched) ==
    \A field \in {"headline", "link", "date_posted"} :
        /\ field \in DOMAIN story
        /\ story[field] = fetched[field]

C26_StoriesStamped ==
    pc = "collecting" =>
        \A k \in DOMAIN all_stories :
            /\ {"source_url", "source_type"} \subseteq DOMAIN all_stories[k]
            /\ \E t \in DOMAIN tasks :
                   /\ tasks[t].at = "seen_returned"
                   /\ \E j \in DOMAIN C26_Fetched(all_tasks[t]) :
                          C26_SameStory(all_stories[k], C26_Fetched(all_tasks[t])[j])
                   /\ all_stories[k].source_url = all_tasks[t].identifier
                   /\ all_stories[k].source_type = all_tasks[t].type

C26_BothKindsStamped ==
    /\ pc = "collecting"
    /\ \A t \in DOMAIN tasks : Seen(t)
    /\ \E k \in DOMAIN all_stories : all_stories[k].source_type = "website"
    /\ \E k \in DOMAIN all_stories : all_stories[k].source_type = "twitter"

(***************************************************************************)
(* get_domain_settings called on its own, by any tasks in any order. The   *)
(* method has no await: in the event loop a call runs from its first line  *)
(* to its return before another one starts.                                *)
(***************************************************************************)
\* the most calls made
MaxLookups == 3

\* the urls looked up: the configured domain, a child and a parent of it, two
\* pages of one unseen domain and another unseen domain
LookupPool ==
    {"https://news.site/ai/", "https://blog.news.site/", "https://site/",
     "https://example.com", "https://example.com/page", "https://other.org/feed"}

\* one call of config_manager.get_domain_settings(url)
Lookup(url) ==
    /\ Len(lookups) < MaxLookups
    /\ domains' = get_domain_settings(domains, url).domains
    /\ lookups' = Append(lookups, [url |-> url,
                                   settings |-> get_domain_settings(domains, url).settings])
    /\ UNCHANGED <<sources, twitter_token, max_concurrent, pc, all_tasks, tasks, semaphore,
                   done_queue, all_stories, errors, result, procVars, mainVars,
                   classVars, retryVars, response>>

RegInit ==
    /\ domains \in {ConfiguredDomains, <<>>}
    /\ lookups = <<>>
    /\ response = NoResponse
    /\ sources = <<>>
    /\ twitter_token = ""
    /\ max_concurrent = 1
    /\ pc = "idle"
    /\ all_tasks = <<>>
    /\ tasks = <<>>
    /\ semaphore = 0
    /\ done_queue = <<>>
    /\ all_stories = <<>>
    /\ errors = <<>>
    /\ result = NoResult
    /\ stories = <<>>
    /\ processed = <<>>
    /\ reprocessed = <<>>
    /\ sp = "idle"
    /\ argv = ""
    /\ stdout = <<>>
    /\ exit_status = -1
    /\ exception = ""
    /\ classified = <<>>
    /\ exceptions = {"Exception"}
    /\ call = NoCall

RegNext == \E url \in LookupPool : Lookup(url)

RegSpec == RegInit /\ [][RegNext]_vars

\* the hostname of the call that a step makes
C27_Hostname == urlparse(lookups'[Len(lookups')].url).netloc

C27_Returned == lookups'[Len(lookups')].settings

C27_Exact(host) == {k \in DOMAIN domains : domains[k].domain = host}

C27_Related(host) ==
    {k \in DOMAIN domains :
        \/ EndsWith(host, "." \o domains[k].domain)
        \/ EndsWith(domains[k].domain, "." \o host)}

C27_Called == Len(lookups') = Len(lookups) + 1

\* C27: a lookup of a hostname that has no match in the registry returns the
\* default settings and stores them under that hostname, and a later lookup of
\* the hostname returns the stored entry and stores nothing; in whatever order
\* several tasks look a new hostname up, the registry holds one entry for it,
\* with the default settings, and each of these lookups returns the default
\* settings.
C27_DefaultMemoized ==
    /\ [](\A i, j \in DOMAIN domains : domains[i].domain = domains[j].domain => i = j)
    /\ [][C27_Called /\ C27_Exact(C27_Hostname) = {} /\ C27_Related(C27_Hostname) = {} =>
              /\ C27_Returned = DefaultDomainSettings
              /\ domains' = Append(domains, [domain |-> C27_Hostname,
                                             settings |-> DefaultDomainSettings])]_vars
    /\ [][C27_Called /\ C27_Exact(C27_Hostname) # {} =>
              /\ \A k \in C27_Exact(C27_Hostname) : C27_Returned = domains[k].settings
              /\ domains' = domains]_vars

C27_LookedUpThrice ==
    /\ Len(lookups) = 3
    /\ \A k \in DOMAIN lookups :
           /\ urlparse(lookups[k].url).netloc = "example.com"
           /\ lookups[k].settings = DefaultDomainSettings
    /\ lookups[1].url # lookups[2].url
    /\ Cardinality({k \in DOMAIN domains : domains[k].domain = "example.com"}) = 1

\* C28: a lookup leaves every entry of the registry as it is and where it is,
\* adds none when the hostname has an exact match or a match as a child or a
\* parent domain, and adds at most one entry, for the hostname looked up.
C28_RegistryOnlyGrows ==
    [][C27_Called =>
           /\ Len(domains') >= Len(domains)
           /\ \A k \in DOMAIN domains : domains'[k] = domains[k]
           /\ C27_Exact(C27_Hostname) # {} \/ C27_Related(C27_Hostname) # {} =>
                  domains' = domains
           /\ Len(domains') <= Len(domains) + 1
           /\ Len(domains') = Len(domains) + 1 =>
                  domains'[Len(domains')].domain = C27_Hostname]_vars

C28_SubdomainServed ==
    /\ Len(lookups) = 3
    /\ Len(domains) = 1
    /\ \E k \in DOMAIN lookups : lookups[k].url = "https://blog.news.site/"
    /\ \E k \in DOMAIN lookups : lookups[k].url = "https://site/"
    /\ \A k \in DOMAIN lookups : lookups[k].settings = ConfiguredDomains[1].settings

\* the candidate j, as it is when it is compared, is a duplicate of the accepted
\* story i, as it is stored: the same normalized link or too similar a headline
C29_Matches(i, j) ==
    \/ normalize_url(stories[j].link) = normalize_url(stories'[i].link)
    \/ /\ stories[j].headline # ""
       /\ stories'[i].headline # ""
       /\ ratio_exceeds(Lower(stories[j].headline), Lower(stories'[i].headline),
                        similarity_threshold)

\* the input without the candidates that a filter rejects
C29_Passing == SelectSeq(stories, PassesAlone)

\* C29: a candidate is compared with the accepted stories only. The candidates
\* that a filter rejects (headline too short, not relevant, too old) change
\* nothing for the others: the list returned is the one returned for the input
\* without them. A candidate that passes the filters is dropped only when an
\* earlier story that was accepted matches it, and of two accepted stories the
\* later one does not match the earlier one.
C29_AcceptedOnly ==
    [][(sp = "ready" /\ sp' = "once") =>
          /\ Deref(stories', processed') = process_stories(C29_Passing, Midnight(Today))
          /\ \A j \in DOMAIN stories :
                 (PassesAlone(stories[j]) /\ j \notin Range(processed')) =>
                     \E i \in Range(processed') : i < j /\ C29_Matches(i, j)
          /\ \A i, j \in Range(processed') : i < j => ~C29_Matches(i, j)
      ]_vars

\* C29: the first candidate was rejected by a filter and the second, which has
\* the same link, is returned
C29_RejectedNotCompared ==
    /\ sp = "once"
    /\ Len(stories) = 2
    /\ processed = <<2>>
    /\ ~is_relevant(stories[1])
    /\ normalize_url(stories[1].link) = normalize_url(stories[2].link)

(***************************************************************************)
(* process_stories on one story, over the dates a page can carry           *)
(***************************************************************************)
\* date_posted: the eight formats, the relative dates in several spellings,
\* and texts that are neither
DatePool ==
    {"2025-03-01", "2025/02/28", "02/27/2025", "27/02/2025", "Feb 26, 2025",
     "February 27, 2025", "28 Feb 2025", "1 March 2025",
     "today", "Today", "Posted TODAY", "yesterday", "Yesterday evening",
     "0 days ago", "1 days ago", "2 days ago", "3 days ago", "4 Days Ago",
     "2  days ago", "yesterday, 3 days ago", "today or 5 days ago",
     "10 days ago today",
     "a few days ago", "days ago", "3days ago",
     "1 day ago", "soon", "TBD", "last week", "March 2025", "2025-13-01",
     "2025-02-30", "12:30", "an hour ago", " ", "2019-03-01T10:00:00",
     "1709251200", "Sat, 01 Mar 2019"}

DateStories ==
    {Story(headline, "https://a.com/x", date_posted) :
        headline \in {"OpenAI releases new model update",
                      "Anthropic ships Claude for everyone"},
        date_posted \in DatePool}

DateInit ==
    /\ stories \in {<<story>> : story \in DateStories}
    /\ processed = <<>>
    /\ reprocessed = <<>>
    /\ sp = "ready"
    /\ sources = <<>>
    /\ twitter_token = ""
    /\ max_concurrent = 1
    /\ domains = ConfiguredDomains
    /\ pc = "idle"
    /\ all_tasks = <<>>
    /\ tasks = <<>>
    /\ semaphore = 0
    /\ done_queue = <<>>
    /\ all_stories = <<>>
    /\ errors = <<>>
    /\ result = NoResult
    /\ argv = ""
    /\ stdout = <<>>
    /\ exit_status = -1
    /\ exception = ""
    /\ classified = <<>>
    /\ exceptions = {"Exception"}
    /\ call = NoCall
    /\ lookups = <<>>
    /\ response = NoResponse

DateSpec == DateInit /\ [][ProcNext]_vars

\* no format of the eight parses the text
C30_NoFormat(date_str) == \A k \in 1..NumFormats : ~ParseFormat(date_str, k).ok

\* the text holds none of 'today', 'yesterday' and 'N days ago', N a number
C30_NoRelative(date_str) ==
    /\ ~Contains(Lower(date_str), "today")
    /\ ~Contains(Lower(date_str), "yesterday")
    /\ ~\E p \in 0..Len(date_str) : IsDaysAgoAt(Lower(date_str), p)

\* C30: a date_posted that no format parses and that holds none of 'today',
\* 'yesterday' and 'N days ago' is read as today's date, and its story passes
\* the date filter: the story, which passes the other filters, is returned.
C30_DefaultsToToday ==
    sp = "once" =>
        \A k \in DOMAIN stories :
            ( /\ stories[k].date_posted # ""
              /\ C30_NoFormat(stories[k].date_posted)
              /\ C30_NoRelative(stories[k].date_posted) ) =>
                  /\ normalize_date(stories[k].date_posted, Midnight(Today))
                         = Some(Midnight(Today))
                  /\ (Len(stories) = 1 /\ is_relevant(stories[k])) => processed = <<1>>

\* the days before today that a relative date text stands for: 0 for 'today',
\* else 1 for 'yesterday', else the N of the first 'N days ago'; -1 for none
C31_DaysBack(date_str) ==
    IF Contains(Lower(date_str), "today") THEN 0
    ELSE IF Contains(Lower(date_str), "yesterday") THEN 1
    ELSE DaysAgo(Lower(date_str))

\* C31: a date_posted that no format parses and that holds 'today',
\* 'yesterday' or 'N days ago', in any case of letters, is read as today, as
\* the day before today, or as N days before today, the first of the three in
\* this order that the text holds; its story, which passes the other filters,
\* is returned exactly when that is at most max_days_old days before today.
C31_RelativeDates ==
    sp = "once" =>
        \A k \in DOMAIN stories :
            ( /\ C30_NoFormat(stories[k].date_posted)
              /\ C31_DaysBack(stories[k].date_posted) >= 0 ) =>
                  /\ normalize_date(stories[k].date_posted, Midnight(Today))
                         = Some(Midnight(Today) - C31_DaysBack(stories[k].date_posted))
                  /\ (Len(stories) = 1 /\ is_relevant(stories[k])) =>
                         (processed = <<1>> <=>
                             C31_DaysBack(stories[k].date_posted) <= max_days_old)

\* C31: a story dated 'N Days Ago' with capitals and N over max_days_old, and
\* without 'today' and 'yesterday', was rejected
C31_OldRelativeRejected ==
    /\ sp = "once"
    /\ processed = <<>>
    /\ Len(stories) = 1
    /\ C30_NoFormat(stories[1].date_posted)
    /\ stories[1].date_posted # Lower(stories[1].date_posted)
    /\ ~Contains(Lower(stories[1].date_posted), "today")
    /\ ~Contains(Lower(stories[1].date_posted), "yesterday")
    /\ DaysAgo(Lower(stories[1].date_posted)) > max_days_old

(***************************************************************************)
(* process_stories on one story, over the headlines and links a page can   *)
(* carry                                                                   *)
(***************************************************************************)
HeadlinePool ==
    {"OpenAI releases new model update", "He said it would rain in Spain",
     "AI startups raise record funding", "The new LLMs are here to stay",
     "ChatGPT4 rumours keep spreading", "GPT-4 turbo gets cheaper again",
     "ML_ops pipelines for everyone", "Breaking: Claude, explained simply",
     "Fine-Tuning tips for small teams", "Fine tuning tips for small teams",
     "Maintain your garden in spring", "Dramatic gains in crop yields",
     "Machine  learning beats doctors", "Machine learning beats doctors",
     "New (AI) rules agreed in Europe", "Midjourney's latest release",
     "Update: Deepminds of the ocean", "NVIDIA: record quarter again",
     "Why e-mail is not dead yet", "dall-e prints arrive in stores",
     "A.I. is changing everything", "HTML tutorials for beginners",
     "Just in: the rag trade recovers", "Stable Diffusion 3 is out now",
     "Transformers movie sequel lands", "Retrain, said the AI", "ai",
     "Is this the end of email?", "Google  AI lab opens in Paris",
     "Embeddings explained in depth", "Embedding models compared",
     "Multimodal-first design wins", "The mistral wind hits Provence",
     "Llama2 weights leak online", "Large Language Model costs fall",
     "New: Breaking: Mistral beats every benchmark",
     "Breaking: Breaking: OpenAI ships again",
     "Update: New: Gemini learns to plan",
     "Breaking:Just in: Llama runs on phones",
     "  Breaking:   AI   chips \t sell out  ",
     "Just in: New: Update: Claude", "New: New: New: AI",
     "Breaking: Update: nothing here",
     "OpenAI " \o Repeat(Repeat("model ", 8), 5),
     "Breaking: " \o Repeat(Repeat("x", 14), 14) \o " New: y",
     "New:   Anthropic  news",
     "Update: " \o Repeat(Repeat("a", 14), 14) \o "a bcd",
     Repeat(Repeat("ai ", 11), 6) \o "xy",
     Repeat(Repeat("a", 14), 14) \o " New: b"}

LinkPool ==
    {"https://a.com/x", "a.com/x/", "https://a.com/x//", "http://b.org/y?utm=1",
     "https://c.io/z#frag", "https://d.net", "https://d.net/", "//e.dev/s",
     "https://a.com:8080/p/", "ftp://f.ai/l", "https://g.co/a;b?c",
     "HTTPS://H.com/Path/", "https://a.com/x///", "/posts/1", "",
     "https://user@i.io/q/?a=/", "https://j.com/?x=1", "https://k.com//"}

\* a story of each headline, a story of each link, a story without a headline
\* and a story without a link
FieldStories ==
    {Story(headline, "https://a.com/x", "today") : headline \in HeadlinePool}
    \cup {Story("OpenAI releases new model update", link, "today") : link \in LinkPool}
    \cup {[link |-> "https://a.com/x", date_posted |-> "today"],
          [headline |-> "OpenAI releases new model update", date_posted |-> "today"]}

FieldInit ==
    /\ stories \in {<<story>> : story \in FieldStories}
    /\ processed = <<>>
    /\ reprocessed = <<>>
    /\ sp = "ready"
    /\ sources = <<>>
    /\ twitter_token = ""
    /\ max_concurrent = 1
    /\ domains = ConfiguredDomains
    /\ pc = "idle"
    /\ all_tasks = <<>>
    /\ tasks = <<>>
    /\ semaphore = 0
    /\ done_queue = <<>>
    /\ all_stories = <<>>
    /\ errors = <<>>
    /\ result = NoResult
    /\ argv = ""
    /\ stdout = <<>>
    /\ exit_status = -1
    /\ exception = ""
    /\ classified = <<>>
    /\ exceptions = {"Exception"}
    /\ call = NoCall
    /\ lookups = <<>>
    /\ response = NoResponse

FieldSpec == FieldInit /\ [][ProcNext]_vars

\* the keyword stands in the text as a whole word: no letter, digit or
\* underscore comes right before it or right after it
C32_WholeWord(low, kw) ==
    \E i \in 0..(Len(low) - Len(kw)) :
        /\ Slice(low, i, i + Len(kw)) = kw
        /\ i = 0 \/ ~IsWord(At(low, i - 1))
        /\ i + Len(kw) = Len(low) \/ ~IsWord(At(low, i + Len(kw)))

C32_HasKeyword(story) ==
    /\ "headline" \in DOMAIN story
    /\ \E kw \in ai_keywords : C32_WholeWord(Lower(story.headline), kw)

\* C32: a story passes the relevance filter exactly when its cleaned headline
\* holds, in any case of letters, a keyword of the list as a whole word; a
\* story whose cleaned headline holds keywords inside longer words only, or
\* that has no headline, is not returned, and a story with a keyword, whose
\* headline is long enough and whose date is today, is returned.
C32_WholeWordRelevance ==
    sp = "once" =>
        \A k \in DOMAIN stories :
            /\ is_relevant(stories[k]) <=> C32_HasKeyword(stories[k])
            /\ k \in Range(processed) => C32_HasKeyword(stories[k])
            /\ ( /\ Len(stories) = 1
                 /\ C32_HasKeyword(stories[k])
                 /\ Len(stories[k].headline) >= min_headline_length ) =>
                     processed = <<1>>

\* C32: a story whose headline holds 'ai' inside longer words only was not
\* returned
C32_PartialWordRejected ==
    /\ sp = "once"
    /\ processed = <<>>
    /\ Len(stories) = 1
    /\ "headline" \in DOMAIN stories[1]
    /\ Len(stories[1].headline) >= min_headline_length
    /\ Contains(Lower(stories[1].headline), "ai")
    /\ ~C32_HasKeyword(stories[1])

\* the authority of a link: what stands between '://' and the next '/', '?' or '#'
C33_Authority(link) ==
    Slice(link, Find(link, "://") + 3, FirstOf(link, {"/", "?", "#"}, Find(link, "://") + 3))

\* the authority without its user information
C33_HostPort(authority) ==
    From(authority, MaxOf({i \in 0..(Len(authority) - 1) : At(authority, i) = "@"}, -1) + 1)

\* the host of a link: its authority without user information and port
C33_Host(link) ==
    Slice(C33_HostPort(C33_Authority(link)), 0,
          MaxOf({i \in 0..(Len(C33_HostPort(C33_Authority(link))) - 1) :
                    At(C33_HostPort(C33_Authority(link)), i) = ":"},
                Len(C33_HostPort(C33_Authority(link)))))

\* C33: every returned story that has a link has a source_domain, and it is
\* the host of the link the story is returned with, its normalized link.
C33_SourceDomainIsHost ==
    sp = "once" =>
        \A k \in DOMAIN Output :
            "link" \in DOMAIN Output[k] =>
                /\ "source_domain" \in DOMAIN Output[k]
                /\ Output[k].source_domain = C33_Host(Output[k].link)

\* an earlier accepted story matches the candidate j
C34_Duplicate(j) == \E i \in Range(processed') : i < j /\ C29_Matches(i, j)

\* the candidate with its headline cleaned
C34_Cleaned(story) == [story EXCEPT !.headline = clean_headline(story.headline)]

\* the candidate with its headline cleaned and its link normalized
C34_Normalized(story) == [C34_Cleaned(story) EXCEPT !.link = normalize_url(story.link)]

C34_TooShort(story) == Len(clean_headline(story.headline)) < min_headline_length

C34_Filtered(story) ==
    \/ ~C32_HasKeyword(C34_Cleaned(story))
    \/ ~is_valid_date(story, Midnight(Today))

\* C34: the stages run in the order duplicates, headline, link, relevance and
\* date, and a candidate leaves at the first one that fails. A candidate
\* dropped as a duplicate is left as it came; one dropped for its headline has
\* the headline cleaned and the link as it came; one dropped for relevance or
\* date has the headline cleaned and the link normalized; none of them has a
\* source_domain or is in the list returned; the others are returned, with a
\* source_domain.
C34_StagesInOrder ==
    [][(sp = "ready" /\ sp' = "once") =>
          \A j \in DOMAIN stories :
              /\ j \notin Range(processed') => "source_domain" \notin DOMAIN stories'[j]
              /\ IF C34_Duplicate(j)
                 THEN j \notin Range(processed') /\ stories'[j] = stories[j]
                 ELSE IF C34_TooShort(stories[j])
                 THEN j \notin Range(processed') /\ stories'[j] = C34_Cleaned(stories[j])
                 ELSE IF C34_Filtered(stories[j])
                 THEN j \notin Range(processed') /\ stories'[j] = C34_Normalized(stories[j])
                 ELSE /\ j \in Range(processed')
                      /\ "source_domain" \in DOMAIN stories'[j]
                      /\ [x \in DOMAIN stories[j] |-> stories'[j][x]]
                             = C34_Normalized(stories[j])
      ]_vars

\* C34: the second story, which passes the filters, was dropped as a duplicate
\* of the first: its link still has its query
C34_DuplicateUntouched ==
    /\ sp = "once"
    /\ processed = <<1>>
    /\ Len(stories) = 2
    /\ is_relevant(stories[2])
    /\ is_valid_date(stories[2], Midnight(Today))
    /\ Len(stories[2].headline) >= min_headline_length
    /\ Contains(stories[2].link, "?")

\* the attempt of task t has returned a result that carries an error
C35_ErrorReturned(t) == "error" \in DOMAIN tasks[t].result

\* the entries of errors under the identifier of the source of task t
C35_Recorded(t) == {k \in DOMAIN errors : errors[k].source = all_tasks[t].identifier}

C36_OnlySelects ==
    [][(sp = "ready" /\ sp' = "once") =>
          /\ Len(processed') <= Len(stories)
          /\ Len(stories') = Len(stories)
          /\ \A p, q \in DOMAIN processed' : p # q => processed'[p] # processed'[q]
          /\ \A p \in DOMAIN processed' :
                 /\ processed'[p] \in DOMAIN stories
                 /\ DOMAIN stories'[processed'[p]] \ {"source_domain"}
                        = DOMAIN stories[processed'[p]]
                 /\ \A x \in DOMAIN stories[processed'[p]] :
                        stories'[processed'[p]][x] =
                            IF x = "headline" THEN clean_headline(stories[processed'[p]][x])
                            ELSE IF x = "link" THEN normalize_url(stories[processed'[p]][x])
                            ELSE stories[processed'[p]][x]
      ]_vars

\* C36: both stories of the input are returned, the second one first, and the
\* first one with a headline or a link that is not the one it came with
C36_BothReturnedReordered ==
    /\ sp = "once"
    /\ processed = <<2, 1>>
    /\ \E story \in StoryPool :
           /\ story.date_posted = stories[1].date_posted
           /\ clean_headline(story.headline) = stories[1].headline
           /\ normalize_url(story.link) = stories[1].link
           /\ story.headline # stories[1].headline \/ story.link # stories[1].link

(***************************************************************************)
(* modal_server.py: the Flask application of trend_analyzer_api. A request *)
(* goes through verify_token, registered with app.before_request, and then *)
(* to the view function of its path; a before_request function that        *)
(* returns a value ends the request with that value.                       *)
(***************************************************************************)
\* TOKEN = os.environ.get("MODAL_API_TOKEN", ...), line 14
TOKEN == "ak-token"

\* a verification that accepts a request when either header holds the token
verify_token_either_header(path, headers) ==
    IF path \in {"/", "/health"} THEN 0
    ELSE IF Get(headers, "Authorization", "") # "Bearer " \o TOKEN
            /\ Get(headers, "X-API-Key", "") # TOKEN
    THEN 401
    ELSE 0

\* verify_token(): 401 for the response it returns, 0 for None
verify_token(path, headers) ==
    LET authorization == Get(headers, "Authorization", "")
        bearer == IF StartsWith(authorization, "Bearer ")
                  THEN From(authorization, 7) ELSE authorization
        auth_token == IF bearer = "" THEN Get(headers, "X-API-Key", "") ELSE bearer
    IN  IF path \in {"/", "/health"} THEN 0
        ELSE IF auth_token # TOKEN THEN 401
        ELSE 0

\* the paths and the header values of the requests made
PathPool ==
    {"/", "/health", "/v1/chat/completions", "/v1/completions", "/health/", "/admin"}

HeaderValues ==
    {"", "Bearer " \o TOKEN, "Bearer wrong", TOKEN, "bearer " \o TOKEN, "Bearer ", "wrong"}

HeaderPool ==
    UNION {[names -> HeaderValues] : names \in SUBSET {"Authorization", "X-API-Key"}}

\* one request: the status of the answer (200 stands for the answer of the view
\* function), and the view function that ran, "" for none
Request(path, headers) ==
    LET views == [p \in {"/", "/health", "/v1/chat/completions", "/v1/completions"} |->
                     CASE p = "/" -> "index"
                       [] p = "/health" -> "health"
                       [] p = "/v1/chat/completions" -> "chat_completions"
                       [] OTHER -> "completions"]
        rejected == verify_token(path, headers) # 0
    IN  /\ response' = [path |-> path, headers |-> headers,
                        status |-> IF rejected THEN 401
                                   ELSE IF path \in DOMAIN views THEN 200 ELSE 404,
                        view |-> IF ~rejected /\ path \in DOMAIN views
                                 THEN views[path] ELSE ""]
        /\ UNCHANGED <<orchVars, procVars, mainVars, classVars, retryVars, lookups>>

ServerInit ==
    /\ response = NoResponse
    /\ lookups = <<>>
    /\ sources = <<>>
    /\ twitter_token = ""
    /\ max_concurrent = 1
    /\ domains = ConfiguredDomains
    /\ pc = "idle"
    /\ all_tasks = <<>>
    /\ tasks = <<>>
    /\ semaphore = 0
    /\ done_queue = <<>>
    /\ all_stories = <<>>
    /\ errors = <<>>
    /\ result = NoResult
    /\ stories = <<>>
    /\ processed = <<>>
    /\ reprocessed = <<>>
    /\ sp = "idle"
    /\ argv = ""
    /\ stdout = <<>>
    /\ exit_status = -1
    /\ exception = ""
    /\ classified = <<>>
    /\ exceptions = {"Exception"}
    /\ call = NoCall

ServerNext == \E path \in PathPool, headers \in HeaderPool : Request(path, headers)

ServerSpec == ServerInit /\ [][ServerNext]_vars

\* the value of a header, "" when the request does not have it
C37_Header(name) ==
    IF name \in DOMAIN response.headers THEN response.headers[name] ELSE ""

\* the value of Authorization, without 'Bearer ' when it starts with it
C37_Bearer ==
    IF Slice(C37_Header("Authorization"), 0, 7) = "Bearer "
    THEN Slice(C37_Header("Authorization"), 7, Len(C37_Header("Authorization")))
    ELSE C37_Header("Authorization")

\* the token the request presents: that of Authorization, or the value of
\* X-API-Key when Authorization gives none
C37_Presented == IF C37_Bearer # "" THEN C37_Bearer ELSE C37_Header("X-API-Key")

\* C37: a request to a path other than "/" and "/health" gets to a view
\* function only if the token it presents is TOKEN, and every such request
\* that presents another token or none is answered 401 and no view function
\* runs; "/" and "/health" are served whatever the request presents.
C37_TokenGate ==
    response # NoResponse =>
        IF response.path \in {"/", "/health"}
        THEN response.status = 200 /\ response.view \in {"index", "health"}
        ELSE /\ response.view # "" => C37_Presented = TOKEN
             /\ C37_Presented # TOKEN => response.status = 401 /\ response.view = ""

\* C37: a request to a completion path whose Authorization holds a wrong
\* bearer token and whose X-API-Key holds TOKEN was answered 401
C37_WrongBearerRejected ==
    /\ response # NoResponse
    /\ response.path = "/v1/chat/completions"
    /\ C37_Header("Authorization") = "Bearer wrong"
    /\ C37_Header("X-API-Key") = TOKEN
    /\ response.status = 401
    /\ response.view = ""

\* the path of a link: what follows its authority, up to a '?' or a '#'
C38_Path(link) ==
    Slice(link, Find(link, "://") + 3 + Len(C33_Authority(link)),
          FirstOf(link, {"?", "#"}, Find(link, "://") + 3))

\* C38: the link of a returned story, which _normalize_url has normalized, is
\* left as it is by _normalize_url, has a scheme and no query string, and its
\* path does not end in a slash.
C38_NormalizeIdempotent ==
    sp = "once" =>
        \A k \in DOMAIN Output :
            "link" \in DOMAIN Output[k] =>
                /\ normalize_url(Output[k].link) = Output[k].link
                /\ Find(Output[k].link, "://") > 0
                /\ ~Contains(Output[k].link, "?")
                /\ ~EndsWith(C38_Path(Output[k].link), "/")

\* C39: the headline of a story that went through _clean_headline is left as
\* it is by _clean_headline: it has no two whitespace characters in a row and
\* none at its ends, it starts with none of the prefixes, and it is no longer
\* than max_headline_length.
C39_CleanIdempotent ==
    sp = "once" =>
        \A k \in DOMAIN stories :
            "headline" \in DOMAIN stories[k] =>
                /\ clean_headline(stories[k].headline) = stories[k].headline
                /\ \A i \in 0..(Len(stories[k].headline) - 2) :
                       ~(IsSpace(At(stories[k].headline, i))
                           /\ IsSpace(At(stories[k].headline, i + 1)))
                /\ Strip(stories[k].headline) = stories[k].headline
                /\ \A p \in DOMAIN prefixes : ~StartsWith(stories[k].headline, prefixes[p])
                /\ Len(stories[k].headline) <= max_headline_length

=============================================================================
